---- MODULE Spec2Model ----
(***************************************************************************)
(* Model of the OPA report scripts under .github/scripts:                  *)
(*   opa_test_to_junit.py, opa_combined_junit.py,                          *)
(*   opa_coverage_to_junit.py, opa_coverage_to_cobertura.py.               *)
(*                                                                         *)
(* Strings are sequences of tokens.  Every token stands for a fixed chunk  *)
(* of characters ("data", "_test", ".", "/", ".rego", ...); no token is a  *)
(* prefix of another and all tokens start with a different character, so   *)
(* split, join, endswith and the lexicographic order of the token          *)
(* sequences coincide with those of the Python strings they stand for.     *)
(* Percentages are integers in thousandths of a percent (100% = 100000),   *)
(* durations are integers in nanoseconds.                                  *)
(***************************************************************************)
EXTENDS Integers, Sequences, FiniteSets, TLC

VARIABLES
    tool,                \* which script runs: "norm", "test", "combined", "coverage", "cobertura"
    pc,                  \* position inside main()
    pkg,                 \* a dotted package identifier (name normalizer runs)
    names,               \* the normalized names computed from pkg, in order
    test_json,           \* the file named by --test-json
    coverage_json,       \* the file named by --coverage-json
    coverage_threshold,  \* --coverage-threshold
    test_data,           \* the loaded test records
    coverage_data,       \* the loaded coverage object
    grouping,            \* the builder's policy_groups (package_map for Cobertura)
    report,              \* the report tree built by the tool's builder
    written,             \* the documents written to --output-xml, in order
    stdout,              \* the summary printed on the normal channel
    stderr,              \* the messages printed on the error channel
    exit_code            \* the process exit status, None while running

vars == << tool, pc, pkg, names, test_json, coverage_json, coverage_threshold,
           test_data, coverage_data, grouping, report, written, stdout,
           stderr, exit_code >>

None == [tag |-> "none"]

(***************************************************************************)
(* Bounds                                                                  *)
(***************************************************************************)
MaxPkgLen == 6
MaxTests == 2
MaxFiles == 2
MaxLine == 3
MaxRegions == 2
MaxDepth == 3

(***************************************************************************)
(* String helpers (str.split, str.join, str.endswith)                      *)
(***************************************************************************)
RECURSIVE Split(_, _)
Split(s, sep) ==
    IF \A i \in 1..Len(s) : s[i] # sep
    THEN << s >>
    ELSE LET i == CHOOSE k \in 1..Len(s) :
                      s[k] = sep /\ \A j \in 1..(k - 1) : s[j] # sep
         IN  << SubSeq(s, 1, i - 1) >> \o Split(SubSeq(s, i + 1, Len(s)), sep)

RECURSIVE Join(_, _)
Join(parts, sep) ==
    IF Len(parts) = 0 THEN << >>
    ELSE IF Len(parts) = 1 THEN parts[1]
    ELSE parts[1] \o << sep >> \o Join(Tail(parts), sep)

EndsWith(s, suffix) ==
    /\ Len(s) >= Len(suffix)
    /\ SubSeq(s, Len(s) - Len(suffix) + 1, Len(s)) = suffix

StartsWith(s, prefix) ==
    /\ Len(s) >= Len(prefix)
    /\ SubSeq(s, 1, Len(prefix)) = prefix

DropLast(s, n) == SubSeq(s, 1, Len(s) - n)

(***************************************************************************)
(* Name normalizer for test packages                                       *)
(***************************************************************************)
\* A slip: the leading data segment is dropped even from a one-segment name.
PolicyNameNoLenGuard(package) ==
    LET parts0 == Split(package, ".")
        parts1 == IF parts0[1] = << "data" >> THEN Tail(parts0) ELSE parts0
        n      == Len(parts1)
        parts2 == IF n > 0 /\ EndsWith(parts1[n], << "_test" >>)
                  THEN [parts1 EXCEPT ![n] = DropLast(@, 1)]
                  ELSE parts1
    IN  Join(parts2, ".")

RECURSIVE StripAllTest(_)
StripAllTest(s) ==
    IF EndsWith(s, << "_test" >>) THEN StripAllTest(DropLast(s, 1)) ELSE s

\* A slip: every trailing _test marker is removed, not just one.
PolicyNameStripAll(package) ==
    LET parts0 == Split(package, ".")
        parts1 == IF parts0[1] = << "data" >> /\ Len(parts0) > 1
                  THEN Tail(parts0) ELSE parts0
        n      == Len(parts1)
        parts2 == IF n > 0 /\ EndsWith(parts1[n], << "_test" >>)
                  THEN [parts1 EXCEPT ![n] = StripAllTest(@)]
                  ELSE parts1
    IN  Join(parts2, ".")

PolicyName(package) ==
    LET parts0 == Split(package, ".")
        parts1 == IF parts0[1] = << "data" >> /\ Len(parts0) > 1
                  THEN Tail(parts0) ELSE parts0
        n      == Len(parts1)
        parts2 == IF n > 0 /\ EndsWith(parts1[n], << "_test" >>)
                  THEN [parts1 EXCEPT ![n] = DropLast(@, 1)]
                  ELSE parts1
    IN  Join(parts2, ".")

(***************************************************************************)
(* Specification of the name normalizer alone: a package identifier is     *)
(* drawn, normalized, and the result is normalized once more.              *)
(***************************************************************************)
PkgTokens == { "data", "foo", "_test", "." }

RECURSIVE SeqsUpTo(_, _)
SeqsUpTo(S, n) ==
    IF n = 0 THEN { << >> }
    ELSE LET shorter == SeqsUpTo(S, n - 1)
         IN  shorter \cup { Append(s, x) : s \in { t \in shorter : Len(t) = n - 1 }, x \in S }

InitNorm ==
    /\ tool = "norm"
    /\ pc = "start"
    /\ pkg \in SeqsUpTo(PkgTokens, MaxPkgLen)
    /\ names = << >>
    /\ test_json = None
    /\ coverage_json = None
    /\ coverage_threshold = None
    /\ test_data = None
    /\ coverage_data = None
    /\ grouping = None
    /\ report = None
    /\ written = << >>
    /\ stdout = << >>
    /\ stderr = << >>
    /\ exit_code = None

Normalize ==
    /\ tool = "norm"
    /\ pc = "start"
    /\ names' = << PolicyName(pkg) >>
    /\ pc' = "named"
    /\ UNCHANGED << tool, pkg, test_json, coverage_json, coverage_threshold,
                    test_data, coverage_data, grouping, report, written,
                    stdout, stderr, exit_code >>

NormalizeAgain ==
    /\ tool = "norm"
    /\ pc = "named"
    /\ names' = Append(names, PolicyName(names[1]))
    /\ pc' = "done"
    /\ UNCHANGED << tool, pkg, test_json, coverage_json, coverage_threshold,
                    test_data, coverage_data, grouping, report, written,
                    stdout, stderr, exit_code >>

NextNorm == Normalize \/ NormalizeAgain

SpecNorm == InitNorm /\ [][NextNorm]_vars

(***************************************************************************)
(* Claims about the name normalizer (checked under SpecNorm)               *)
(***************************************************************************)
LastSegment(package) == LET parts == Split(package, ".") IN parts[Len(parts)]

\* The package repeats the leading data segment (data.data.<more>) ...
RepeatsData(package) ==
    LET parts == Split(package, ".")
    IN  Len(parts) >= 3 /\ parts[1] = << "data" >> /\ parts[2] = << "data" >>

\* ... or repeats the trailing _test marker (<...>_test_test).
RepeatsTest(package) == EndsWith(LastSegment(package), << "_test", "_test" >>)

\* C3 (as stated): normalizing a second time never changes the name:
\* normalize(normalize(p)) = normalize(p) for every package identifier p.
C3_IdempotentEverywhere ==
    pc = "done" => names[2] = names[1]

\* C3 (amended): normalizing a second time leaves the name unchanged exactly
\* when the package repeats neither the leading data segment nor the trailing
\* _test marker; a repeated data segment or marker is stripped once per pass.
C3_IdempotentUnlessRepeated ==
    pc = "done" => ((names[2] = names[1]) <=> (~RepeatsData(pkg) /\ ~RepeatsTest(pkg)))

\* C3 witness: data.foo_test was normalized twice and both passes give foo.
C3_Witness ==
    /\ pc = "done"
    /\ pkg = << "data", ".", "foo", "_test" >>
    /\ names = << << "foo" >>, << "foo" >> >>

\* The rule of C4 on the flat identifier: drop a leading `data.` and then a
\* trailing `_test`.
StripDataPrefix(package) ==
    IF StartsWith(package, << "data", "." >>)
    THEN SubSeq(package, 3, Len(package)) ELSE package

StripTestSuffix(package) ==
    IF EndsWith(package, << "_test" >>) THEN DropLast(package, 1) ELSE package

\* The rule of C4 as the claim words it: a leading data segment is dropped
\* from an identifier of any number of segments.
ClaimedPolicyName(package) ==
    LET parts0 == Split(package, ".")
        parts1 == IF parts0[1] = << "data" >> THEN Tail(parts0) ELSE parts0
        n      == Len(parts1)
        parts2 == IF n > 0 /\ EndsWith(parts1[n], << "_test" >>)
                  THEN [parts1 EXCEPT ![n] = DropLast(@, 1)]
                  ELSE parts1
    IN  Join(parts2, ".")

\* C4 (as stated): the normalized name is the identifier without its leading
\* data segment (whenever the first segment is data, whatever the number of
\* segments) and without one trailing _test marker.
C4_StripsDataAlways ==
    pc # "start" => names[1] = ClaimedPolicyName(pkg)

\* C4 (amended): the normalized name is the identifier without its leading
\* data segment when the first segment is data and another segment follows,
\* and then without one _test marker at the end of the final segment; exactly
\* one of each is removed, and the one-segment identifier `data` is kept.
C4_StripsOneDataOneTest ==
    pc # "start" =>
        /\ names[1] = StripTestSuffix(StripDataPrefix(pkg))
        /\ pkg = << "data" >> => names[1] = << "data" >>

\* C4 witness: data.data.foo_test loses one data segment and one marker.
C4_Witness ==
    /\ pc = "named"
    /\ pkg = << "data", ".", "data", ".", "foo", "_test" >>
    /\ names[1] = << "data", ".", "foo" >>

(***************************************************************************)
(* Generic helpers                                                         *)
(***************************************************************************)
\* Lexicographic order of strings (Python's < on str), token by token.
TokenOrder ==
    << ".", ".rego", "/", "_test", "a", "bar", "c", "data", "default", "foo",
       "lib", "main", "other", "policy" >>

RECURSIVE StrLess(_, _)
StrLess(s, t) ==
    IF Len(t) = 0 THEN FALSE
    ELSE IF Len(s) = 0 THEN TRUE
    ELSE IF s[1] = t[1] THEN StrLess(Tail(s), Tail(t))
    ELSE (CHOOSE i \in 1..Len(TokenOrder) : TokenOrder[i] = s[1])
             < (CHOOSE i \in 1..Len(TokenOrder) : TokenOrder[i] = t[1])

Least(S) == CHOOSE x \in S : \A y \in S \ {x} : StrLess(x, y)

Greatest(S) == CHOOSE x \in S : \A y \in S \ {x} : StrLess(y, x)

\* A slip: the keys are taken in descending order.
RECURSIVE SortedDescending(_)
SortedDescending(S) ==
    IF S = {} THEN << >>
    ELSE << Greatest(S) >> \o SortedDescending(S \ {Greatest(S)})

\* sorted(keys): the elements of a finite set of strings in ascending order.
RECURSIVE Sorted(_)
Sorted(S) ==
    IF S = {} THEN << >>
    ELSE << Least(S) >> \o Sorted(S \ {Least(S)})

\* sum(g[field] for g in groups.values())
RECURSIVE SumField(_, _, _)
SumField(groups, keys, field) ==
    IF keys = << >> THEN 0
    ELSE groups[Head(keys)][field] + SumField(groups, Tail(keys), field)

\* test.get("error") is truthy: the record carries an error object
IsSet(v) == v # None

\* sum(1 for test in tests if test.get(field))
CountOf(tests, field) ==
    Cardinality({ i \in 1..Len(tests) :
                    IF field = "error" THEN IsSet(tests[i].error) ELSE tests[i][field] })

\* round(nanos / 1_000_000_000, 3), in milliseconds
NanosToSeconds(nanos) == (nanos + 500000) \div 1000000

\* d[key] = value on a dict held as a function
Put(d, key, value) ==
    [k \in DOMAIN d \cup {key} |-> IF k = key THEN value ELSE d[k]]

(***************************************************************************)
(* opa_test_to_junit.py: create_test_report                                *)
(***************************************************************************)
EmptyTestGroup ==
    [tests |-> << >>, package |-> None, duration |-> 0,
     failures |-> 0, errors |-> 0, skipped |-> 0]

\* policy_groups[policy_name] of a defaultdict
TestGroupOf(groups, policy_name) ==
    IF policy_name \in DOMAIN groups THEN groups[policy_name] ELSE EmptyTestGroup

\* A slip: an erroring test is counted as a failure of its group as well.
BumpTestGroupErrorAsFailure(group, test, policy_name) ==
    [tests    |-> Append(group.tests, test),
     package  |-> policy_name,
     duration |-> group.duration + test.duration,
     failures |-> group.failures + (IF test.fail \/ IsSet(test.error) THEN 1 ELSE 0),
     errors   |-> group.errors + (IF IsSet(test.error) THEN 1 ELSE 0),
     skipped  |-> group.skipped + (IF test.skip THEN 1 ELSE 0)]

\* A slip: the record replaces the group's list instead of joining it.
BumpTestGroupOverwrite(group, test, policy_name) ==
    [tests    |-> << test >>,
     package  |-> policy_name,
     duration |-> group.duration + test.duration,
     failures |-> group.failures + (IF test.fail THEN 1 ELSE 0),
     errors   |-> group.errors + (IF IsSet(test.error) THEN 1 ELSE 0),
     skipped  |-> group.skipped + (IF test.skip THEN 1 ELSE 0)]

\* The body of the grouping loop: the record joins the group and bumps its
\* counters.
BumpTestGroup(group, test, policy_name) ==
    [tests    |-> Append(group.tests, test),
     package  |-> policy_name,
     duration |-> group.duration + test.duration,
     failures |-> group.failures + (IF test.fail THEN 1 ELSE 0),
     errors   |-> group.errors + (IF IsSet(test.error) THEN 1 ELSE 0),
     skipped  |-> group.skipped + (IF test.skip THEN 1 ELSE 0)]

\* One pass of the grouping loop: the record goes to the group of its
\* normalized package name.
AddTest(groups, test) ==
    Put(groups, PolicyName(test.package),
        BumpTestGroup(TestGroupOf(groups, PolicyName(test.package)), test,
                      PolicyName(test.package)))

RECURSIVE GroupTestsFrom(_, _)
GroupTestsFrom(groups, tests) ==
    IF tests = << >> THEN groups
    ELSE GroupTestsFrom(AddTest(groups, Head(tests)), Tail(tests))

GroupTests(tests) == GroupTestsFrom([n \in {} |-> EmptyTestGroup], tests)

\* The <testcase> of one raw test.
TestCase(test) ==
    [name    |-> test.name,
     file    |-> test.location.file,
     line    |-> test.location.row,
     time    |-> NanosToSeconds(test.duration),
     failure |-> IF test.fail
                 THEN [message |-> [failed |-> test.name], type |-> "AssertionError"]
                 ELSE None,
     error   |-> IF IsSet(test.error)
                 THEN [type |-> test.error.code, message |-> test.error.message]
                 ELSE None,
     skipped |-> test.skip]

\* The <testsuite> of one policy group.
TestSuite(policy_name, group) ==
    [name     |-> policy_name,
     package  |-> policy_name,
     tests    |-> Len(group.tests),
     failures |-> group.failures,
     errors   |-> group.errors,
     skipped  |-> group.skipped,
     time     |-> NanosToSeconds(group.duration),
     properties |-> [policy |-> policy_name],
     cases    |-> [i \in 1..Len(group.tests) |-> TestCase(group.tests[i])]]

\* The <testsuites> root over the groups and their sorted names.
TestReport(tests, policy_groups, keys) ==
    [name     |-> "OPA Policy Test Report",
     tests    |-> Len(tests),
     failures |-> SumField(policy_groups, keys, "failures"),
     errors   |-> SumField(policy_groups, keys, "errors"),
     skipped  |-> SumField(policy_groups, keys, "skipped"),
     time     |-> NanosToSeconds(SumField(policy_groups, keys, "duration")),
     suites   |-> [i \in 1..Len(keys) |-> TestSuite(keys[i], policy_groups[keys[i]])]]

TestReportOf(tests, policy_groups) ==
    TestReport(tests, policy_groups, Sorted(DOMAIN policy_groups))

create_test_report(tests) == TestReportOf(tests, GroupTests(tests))

(***************************************************************************)
(* opa_combined_junit.py: create_test_summary_and_suites                   *)
(***************************************************************************)
BumpSummaryGroup(group, test, policy_name) ==
    [tests    |-> Append(group.tests, test),
     package  |-> policy_name,
     duration |-> group.duration + test.duration,
     failures |-> group.failures + (IF test.fail THEN 1 ELSE 0),
     errors   |-> group.errors + (IF IsSet(test.error) THEN 1 ELSE 0),
     skipped  |-> group.skipped + (IF test.skip THEN 1 ELSE 0)]

AddSummaryTest(groups, test) ==
    Put(groups, PolicyName(test.package),
        BumpSummaryGroup(TestGroupOf(groups, PolicyName(test.package)), test,
                         PolicyName(test.package)))

RECURSIVE GroupSummaryTestsFrom(_, _)
GroupSummaryTestsFrom(groups, tests) ==
    IF tests = << >> THEN groups
    ELSE GroupSummaryTestsFrom(AddSummaryTest(groups, Head(tests)), Tail(tests))

GroupSummaryTests(tests) == GroupSummaryTestsFrom([n \in {} |-> EmptyTestGroup], tests)

TestStatus(test) ==
    IF test.fail THEN "failed"
    ELSE IF IsSet(test.error) THEN "error"
    ELSE IF test.skip THEN "skipped"
    ELSE "passed"

\* The lines of one test in the policy case's <system-out>.
TestDetails(test) ==
    << [status |-> TestStatus(test), name |-> test.name,
        time |-> NanosToSeconds(test.duration)] >>
    \o (IF (test.fail \/ IsSet(test.error)) /\ IsSet(test.error)
        THEN << [error |-> test.error.message] >> ELSE << >>)

RECURSIVE AllTestDetails(_)
AllTestDetails(tests) ==
    IF tests = << >> THEN << >>
    ELSE TestDetails(Head(tests)) \o AllTestDetails(Tail(tests))

\* A slip: a policy is marked failed on failures only, not on errors.
PolicyFailedOnFailuresOnly(group) == group.failures > 0

\* if group["failures"] > 0 or group["errors"] > 0
PolicyFailed(group) == group.failures > 0 \/ group.errors > 0

\* The <testcase> of one policy group.  The name is the text
\* "<policy>: T tests, F failures, E errors, S skipped", kept as its fields.
PolicyTestCase(policy_name, group) ==
    [classname |-> "tests",
     name      |-> [policy |-> policy_name, tests |-> Len(group.tests),
                    failures |-> group.failures, errors |-> group.errors,
                    skipped |-> group.skipped],
     time      |-> NanosToSeconds(group.duration),
     failure   |-> IF PolicyFailed(group)
                   THEN [message |-> [failures |-> group.failures, errors |-> group.errors],
                         type |-> "PolicyTestFailure"]
                   ELSE None,
     system_out |-> AllTestDetails(group.tests)]

\* The "Test" suite over the groups, their sorted names and the totals.
TestSummarySuite(policy_groups, keys, total_tests, total_failures, total_errors) ==
    [name     |-> [tests |-> total_tests, failures |-> total_failures],
     package  |-> "tests",
     tests    |-> Len(keys),
     failures |-> Cardinality({ i \in 1..Len(keys) : PolicyFailed(policy_groups[keys[i]]) }),
     errors   |-> 0,
     skipped  |-> 0,
     time     |-> NanosToSeconds(SumField(policy_groups, keys, "duration")),
     properties |-> [total_policies |-> Len(keys),
                     total_tests    |-> total_tests,
                     passed_tests   |-> total_tests - total_failures - total_errors],
     cases    |-> [i \in 1..Len(keys) |-> PolicyTestCase(keys[i], policy_groups[keys[i]])]]

TestSummaryOfGroups(tests, policy_groups) ==
    << TestSummarySuite(policy_groups, Sorted(DOMAIN policy_groups), Len(tests),
           SumField(policy_groups, Sorted(DOMAIN policy_groups), "failures"),
           SumField(policy_groups, Sorted(DOMAIN policy_groups), "errors")) >>

create_test_summary_and_suites(tests) == TestSummaryOfGroups(tests, GroupSummaryTests(tests))

(***************************************************************************)
(* Coverage helpers.  The coverage object is                               *)
(*   [coverage, covered_lines, not_covered_lines, files]                   *)
(* where files is the "files" mapping in its document order, a sequence of *)
(* [path, data] with distinct paths.  A file's data is a record holding    *)
(* exactly the keys the JSON object holds, so `key in file_data` is        *)
(* `key \in DOMAIN data`.                                                  *)
(***************************************************************************)
Has(d, key) == key \in DOMAIN d

\* dict.get(key, default)
Get(d, key, default) == IF key \in DOMAIN d THEN d[key] ELSE default

\* coverage_data["files"][path]
FileData(files, path) ==
    files[CHOOSE i \in 1..Len(files) : files[i].path = path].data

SeqToSet(seq) == { seq[i] : i \in 1..Len(seq) }

\* path.endswith("_test.rego")
IsTestFile(path) == EndsWith(path, << "_test", ".rego" >>)

\* round(value, 2) of a percentage held in thousandths of a percent
RoundPercentage(value) == ((value + 5) \div 10) * 10

\* round(total / count, 2) of a sum of percentages held in thousandths
RoundAverage(total, count) == ((total + 5 * count) \div (10 * count)) * 10

\* file_path.split("/")[-1]
FileName(file_path) == Split(file_path, "/")[Len(Split(file_path, "/"))]

Paths(files) == [i \in 1..Len(files) |-> files[i].path]

\* A slip: test files are not filtered out.
PolicyFilesUnfiltered(files) == Paths(files)

\* [f for f in coverage_data["files"] if not f.endswith("_test.rego")]
PolicyFiles(files) == Paths(SelectSeq(files, LAMBDA f : ~IsTestFile(f.path)))

\* A slip: the first segment is not compared with the policy root.
PolicyAreaAnyRoot(file_path) ==
    IF Len(Split(file_path, "/")) >= 3
    THEN Join(SubSeq(Split(file_path, "/"), 2, Len(Split(file_path, "/")) - 1), ".")
    ELSE << "other" >>

\* The policy area of a coverage file path.
PolicyArea(file_path) ==
    IF Len(Split(file_path, "/")) >= 3 /\ Split(file_path, "/")[1] = << "policy" >>
    THEN Join(SubSeq(Split(file_path, "/"), 2, Len(Split(file_path, "/")) - 1), ".")
    ELSE << "other" >>

EmptyCoverageGroup ==
    [files |-> << >>, total_coverage |-> 0, file_count |-> 0,
     total_lines |-> 0, covered_lines |-> 0, not_covered_lines |-> 0]

CoverageGroupOf(groups, policy_area) ==
    IF policy_area \in DOMAIN groups THEN groups[policy_area] ELSE EmptyCoverageGroup

\* The file joins the group with its percentage and the given line counts.
BumpCoverageGroup(group, file_path, coverage, covered, not_covered) ==
    [files             |-> Append(group.files, file_path),
     total_coverage    |-> group.total_coverage + coverage,
     file_count        |-> group.file_count + 1,
     total_lines       |-> group.total_lines + (covered + not_covered),
     covered_lines     |-> group.covered_lines + covered,
     not_covered_lines |-> group.not_covered_lines + not_covered]

\* region.get("start", {}).get("row", "?") and the same for "end"
RegionRow(region, side) ==
    IF Has(region, side) /\ Has(region[side], "row") THEN region[side].row ELSE "?"

FileStatus(file_coverage) == IF file_coverage = 100000 THEN "ok" ELSE "bad"

(***************************************************************************)
(* opa_coverage_to_junit.py: create_coverage_report                        *)
(***************************************************************************)
\* The line counts the Coverage-Only builder adds for a file.
CoveredOf(file_data) ==
    IF Has(file_data, "covered_lines") THEN file_data.covered_lines ELSE 0

NotCoveredOf(file_data) ==
    IF Has(file_data, "covered_lines") THEN Get(file_data, "not_covered_lines", 0) ELSE 0

\* One pass of the grouping loop of the Coverage-Only builder.
AddCoverageFile(groups, files, file_path) ==
    Put(groups, PolicyArea(file_path),
        BumpCoverageGroup(CoverageGroupOf(groups, PolicyArea(file_path)), file_path,
                          FileData(files, file_path).coverage,
                          CoveredOf(FileData(files, file_path)),
                          NotCoveredOf(FileData(files, file_path))))

RECURSIVE GroupCoverageFrom(_, _, _)
GroupCoverageFrom(groups, files, paths) ==
    IF paths = << >> THEN groups
    ELSE GroupCoverageFrom(AddCoverageFile(groups, files, Head(paths)), files, Tail(paths))

GroupCoverage(files) ==
    GroupCoverageFrom([a \in {} |-> EmptyCoverageGroup], files, PolicyFiles(files))

UncoveredLine(region) ==
    IF RegionRow(region, "start") = RegionRow(region, "end")
    THEN [kind |-> "line", start |-> RegionRow(region, "start")]
    ELSE [kind |-> "lines", start |-> RegionRow(region, "start"),
          end |-> RegionRow(region, "end")]

UncoveredLines(file_coverage, regions, threshold) ==
    IF file_coverage < threshold /\ Len(regions) > 0
    THEN << [kind |-> "uncovered_regions"] >>
         \o [i \in 1..Len(regions) |-> UncoveredLine(regions[i])]
    ELSE << >>

\* The detail lines of one file in the Coverage-Only report.
CoverageFileLines(file_path, file_data, threshold) ==
    IF Has(file_data, "covered_lines")
    THEN << [kind |-> "file", status |-> FileStatus(RoundPercentage(file_data.coverage)),
             filename |-> FileName(file_path),
             coverage |-> RoundPercentage(file_data.coverage),
             covered |-> CoveredOf(file_data),
             total |-> CoveredOf(file_data) + NotCoveredOf(file_data)] >>
         \o UncoveredLines(RoundPercentage(file_data.coverage),
                           Get(file_data, "not_covered", << >>), threshold)
    ELSE << [kind |-> "file", status |-> FileStatus(RoundPercentage(file_data.coverage)),
             filename |-> FileName(file_path),
             coverage |-> RoundPercentage(file_data.coverage)] >>

RECURSIVE CoverageFilesLines(_, _, _)
CoverageFilesLines(paths, files, threshold) ==
    IF paths = << >> THEN << >>
    ELSE CoverageFileLines(Head(paths), FileData(files, Head(paths)), threshold)
         \o CoverageFilesLines(Tail(paths), files, threshold)

\* A slip: the header shows the line fraction even when no lines were counted.
AreaHeaderAlwaysLines(policy_area, group, avg_coverage) ==
    [kind |-> "policy", area |-> policy_area, coverage |-> avg_coverage,
     covered |-> group.covered_lines, total |-> group.total_lines]

AreaHeader(policy_area, group, avg_coverage) ==
    IF group.total_lines > 0
    THEN [kind |-> "policy", area |-> policy_area, coverage |-> avg_coverage,
          covered |-> group.covered_lines, total |-> group.total_lines]
    ELSE [kind |-> "policy", area |-> policy_area, coverage |-> avg_coverage]

\* The section of one policy area in the Coverage-Only detail text.
CoverageAreaLines(policy_area, group, files, threshold) ==
    << AreaHeader(policy_area, group,
                  RoundAverage(group.total_coverage, group.file_count)) >>
    \o CoverageFilesLines(Sorted(SeqToSet(group.files)), files, threshold)

RECURSIVE CoverageAreasLines(_, _, _, _)
CoverageAreasLines(areas, groups, files, threshold) ==
    IF areas = << >> THEN << >>
    ELSE CoverageAreaLines(Head(areas), groups[Head(areas)], files, threshold)
         \o CoverageAreasLines(Tail(areas), groups, files, threshold)

\* A slip: the threshold itself is not accepted.
MeetsThresholdStrict(overall_coverage, threshold) == overall_coverage > threshold

\* overall_meets_threshold = overall_coverage >= coverage_threshold
MeetsThreshold(overall_coverage, threshold) == overall_coverage >= threshold

OverallCase(overall_coverage, threshold, meets, output_lines) ==
    [name    |-> [overall |-> overall_coverage],
     time    |-> 0,
     failure |-> IF ~meets
                 THEN [message |-> [overall |-> overall_coverage, threshold |-> threshold],
                       type |-> "CoverageThreshold"]
                 ELSE None,
     system_out |-> output_lines]

CoverageProperties(data, threshold, overall_coverage) ==
    [coverage_threshold |-> threshold,
     overall_coverage   |-> overall_coverage,
     total_lines        |-> data.covered_lines + data.not_covered_lines,
     covered_lines      |-> data.covered_lines,
     uncovered_lines    |-> data.not_covered_lines]

CoverageSuite(data, threshold, overall_coverage, failures, testcase) ==
    [name |-> "Coverage", package |-> "coverage", tests |-> 1,
     failures |-> failures, errors |-> 0, skipped |-> 0, time |-> 0,
     properties |-> CoverageProperties(data, threshold, overall_coverage),
     cases |-> << testcase >>]

CoverageOutputLines(data, threshold, overall_coverage, policy_groups) ==
    << [kind |-> "header", coverage |-> overall_coverage,
        covered |-> data.covered_lines,
        total |-> data.covered_lines + data.not_covered_lines],
       [kind |-> "threshold", threshold |-> threshold],
       [kind |-> "rule"] >>
    \o CoverageAreasLines(Sorted(DOMAIN policy_groups), policy_groups, data.files, threshold)

CoverageReportOf(data, threshold, overall_coverage, policy_groups) ==
    [name |-> "OPA Coverage Report", tests |-> 1,
     failures |-> IF MeetsThreshold(overall_coverage, threshold) THEN 0 ELSE 1,
     errors |-> 0, skipped |-> 0,
     suites |-> << CoverageSuite(data, threshold, overall_coverage,
                       IF MeetsThreshold(overall_coverage, threshold) THEN 0 ELSE 1,
                       OverallCase(overall_coverage, threshold,
                                   MeetsThreshold(overall_coverage, threshold),
                                   CoverageOutputLines(data, threshold, overall_coverage,
                                                       policy_groups))) >>]

create_coverage_report(data, threshold) ==
    CoverageReportOf(data, threshold, RoundPercentage(data.coverage),
                     GroupCoverage(data.files))

(***************************************************************************)
(* opa_combined_junit.py: create_coverage_summary_and_suites               *)
(***************************************************************************)
HasLineCounts(file_data) ==
    Has(file_data, "covered_lines") /\ Has(file_data, "not_covered_lines")

\* One pass of the grouping loop of the Combined builder.
AddSummaryCoverageFile(groups, files, file_path) ==
    Put(groups, PolicyArea(file_path),
        BumpCoverageGroup(CoverageGroupOf(groups, PolicyArea(file_path)), file_path,
            FileData(files, file_path).coverage,
            IF HasLineCounts(FileData(files, file_path))
            THEN FileData(files, file_path).covered_lines ELSE 0,
            IF HasLineCounts(FileData(files, file_path))
            THEN FileData(files, file_path).not_covered_lines ELSE 0))

RECURSIVE GroupSummaryCoverageFrom(_, _, _)
GroupSummaryCoverageFrom(groups, files, paths) ==
    IF paths = << >> THEN groups
    ELSE GroupSummaryCoverageFrom(AddSummaryCoverageFile(groups, files, Head(paths)),
                                  files, Tail(paths))

\* A slip: the grouping loop runs over every file, test files included.
GroupSummaryCoverageAllFiles(files) ==
    GroupSummaryCoverageFrom([a \in {} |-> EmptyCoverageGroup], files,
                             PolicyFilesUnfiltered(files))

GroupSummaryCoverage(files) ==
    GroupSummaryCoverageFrom([a \in {} |-> EmptyCoverageGroup], files, PolicyFiles(files))

\* A slip: completeness is decided on the area's average coverage.
HasIncompleteCoverageOnAverage(files, group) ==
    RoundAverage(group.total_coverage, group.file_count) < 100000

\* any(coverage_data["files"][f]["coverage"] < 100 for f in group["files"])
HasIncompleteCoverage(files, group) ==
    \E i \in 1..Len(group.files) : FileData(files, group.files[i]).coverage < 100000

FirstFileName(policy_area, avg_coverage, file_data) ==
    IF HasLineCounts(file_data)
    THEN [area |-> policy_area, coverage |-> avg_coverage,
          covered |-> file_data.covered_lines,
          total |-> file_data.covered_lines + file_data.not_covered_lines]
    ELSE [area |-> policy_area, coverage |-> avg_coverage]

\* The name of a policy area's case: "<area>: <avg>%" and, when line counts
\* are known, "(<covered>/<total> lines)": the group's, or else the first
\* file's.
PolicyCoverageName(policy_area, group, files) ==
    IF group.total_lines > 0
    THEN [area |-> policy_area,
          coverage |-> RoundAverage(group.total_coverage, group.file_count),
          covered |-> group.covered_lines, total |-> group.total_lines]
    ELSE IF Len(group.files) > 0
    THEN FirstFileName(policy_area,
                       RoundAverage(group.total_coverage, group.file_count),
                       FileData(files, group.files[1]))
    ELSE [area |-> policy_area,
          coverage |-> RoundAverage(group.total_coverage, group.file_count)]

First3(regions) == SubSeq(regions, 1, IF Len(regions) < 3 THEN Len(regions) ELSE 3)

SummaryUncoveredLines(file_coverage, regions) ==
    IF file_coverage < 100000 /\ Len(regions) > 0
    THEN << [kind |-> "uncovered_regions"] >>
         \o [i \in 1..Len(First3(regions)) |->
                [kind |-> "lines", start |-> RegionRow(regions[i], "start"),
                 end |-> RegionRow(regions[i], "end")]]
         \o (IF Len(regions) > 3
             THEN << [kind |-> "more", regions |-> Len(regions) - 3] >> ELSE << >>)
    ELSE << >>

\* The detail lines of one file in a policy area's <system-out>.
SummaryFileLines(file_path, file_data) ==
    IF HasLineCounts(file_data)
    THEN << [kind |-> "file", status |-> FileStatus(RoundPercentage(file_data.coverage)),
             filename |-> FileName(file_path),
             coverage |-> RoundPercentage(file_data.coverage),
             covered |-> file_data.covered_lines,
             total |-> file_data.covered_lines + file_data.not_covered_lines] >>
         \o SummaryUncoveredLines(RoundPercentage(file_data.coverage),
                                  Get(file_data, "not_covered", << >>))
    ELSE << [kind |-> "file", status |-> FileStatus(RoundPercentage(file_data.coverage)),
             filename |-> FileName(file_path),
             coverage |-> RoundPercentage(file_data.coverage)] >>

RECURSIVE SummaryFilesLines(_, _)
SummaryFilesLines(paths, files) ==
    IF paths = << >> THEN << >>
    ELSE SummaryFileLines(Head(paths), FileData(files, Head(paths)))
         \o SummaryFilesLines(Tail(paths), files)

\* The <testcase> of one policy area in the Coverage Summary suite.
PolicyCoverageCase(policy_area, group, files) ==
    [name    |-> PolicyCoverageName(policy_area, group, files),
     failure |-> IF HasIncompleteCoverage(files, group)
                 THEN [message |-> policy_area, type |-> "CoverageThreshold"]
                 ELSE None,
     system_out |-> SummaryFilesLines(Sorted(SeqToSet(group.files)), files)]

CoverageSummarySuite(data, threshold, overall_coverage, policy_groups, areas) ==
    [name    |-> [overall |-> overall_coverage, covered |-> data.covered_lines,
                  total |-> data.covered_lines + data.not_covered_lines],
     package |-> "coverage",
     properties |-> CoverageProperties(data, threshold, overall_coverage),
     cases |-> [i \in 1..Len(areas) |->
                   PolicyCoverageCase(areas[i], policy_groups[areas[i]], data.files)]]

CoverageSummaryOf(data, threshold, policy_groups) ==
    << CoverageSummarySuite(data, threshold, RoundPercentage(data.coverage),
                            policy_groups, Sorted(DOMAIN policy_groups)) >>

create_coverage_summary_and_suites(data, threshold) ==
    CoverageSummaryOf(data, threshold, GroupSummaryCoverage(data.files))

(***************************************************************************)
(* opa_coverage_to_cobertura.py                                            *)
(***************************************************************************)
\* round(num / den, 4), in units of 0.0001
Round4(num, den) ==
    (10000 * num) \div den + (IF 2 * ((10000 * num) % den) >= den THEN 1 ELSE 0)

\* _round_percentage(value) = round(value / 100, 4) of the percentage num/den
RoundRate(value) == Round4(value.num, value.den * 100)

\* A file's "coverage" (thousandths of a percent) as a fraction
Percent(thousandths) == [num |-> thousandths, den |-> 1000]

RECURSIVE SumLines(_, _)
SumLines(files, key) ==
    IF files = << >> THEN 0
    ELSE (IF IsTestFile(Head(files).path) THEN 0 ELSE Get(Head(files).data, key, 0))
         + SumLines(Tail(files), key)

\* A slip: the covered lines are divided by the uncovered lines.
PolicyMetricsOverUncovered(policy_covered, policy_uncovered) ==
    [covered_lines     |-> policy_covered,
     not_covered_lines |-> policy_uncovered,
     total_lines       |-> policy_covered + policy_uncovered,
     coverage |-> IF policy_uncovered > 0
                  THEN [num |-> policy_covered * 100, den |-> policy_uncovered]
                  ELSE [num |-> 0, den |-> 1]]

PolicyMetrics(policy_covered, policy_uncovered) ==
    [covered_lines     |-> policy_covered,
     not_covered_lines |-> policy_uncovered,
     total_lines       |-> policy_covered + policy_uncovered,
     coverage |-> IF policy_covered + policy_uncovered > 0
                  THEN [num |-> policy_covered * 100,
                        den |-> policy_covered + policy_uncovered]
                  ELSE [num |-> 0, den |-> 1]]

calculate_policy_only_coverage(data) ==
    PolicyMetrics(SumLines(data.files, "covered_lines"),
                  SumLines(data.files, "not_covered_lines"))

\* The package (directory) of a file path.
PackageName(file_path) ==
    IF Len(Split(file_path, "/")) > 1
    THEN Join(SubSeq(Split(file_path, "/"), 1, Len(Split(file_path, "/")) - 1), ".")
    ELSE << "default" >>

EmptyPackage == [files |-> << >>, line_rate |-> 0, covered_lines |-> 0, total_lines |-> 0]

PackageOf(package_map, package_name) ==
    IF package_name \in DOMAIN package_map THEN package_map[package_name] ELSE EmptyPackage

\* A slip: the not-covered lines are left out of the package's total.
BumpPackageCoveredOnly(package, file, covered_lines, not_covered_lines) ==
    [files         |-> Append(package.files, file),
     line_rate     |-> package.line_rate,
     covered_lines |-> package.covered_lines + covered_lines,
     total_lines   |-> package.total_lines + covered_lines]

BumpPackage(package, file, covered_lines, not_covered_lines) ==
    [files         |-> Append(package.files, file),
     line_rate     |-> package.line_rate,
     covered_lines |-> package.covered_lines + covered_lines,
     total_lines   |-> package.total_lines + (covered_lines + not_covered_lines)]

\* A slip: test files are not skipped.
AddPackageFileUnfiltered(package_map, file) ==
    Put(package_map, PackageName(file.path),
        BumpPackage(PackageOf(package_map, PackageName(file.path)), file,
                    Get(file.data, "covered_lines", 0),
                    Get(file.data, "not_covered_lines", 0)))

\* One pass of the loop that fills package_map.
AddPackageFile(package_map, file) ==
    IF IsTestFile(file.path) THEN package_map
    ELSE Put(package_map, PackageName(file.path),
             BumpPackage(PackageOf(package_map, PackageName(file.path)), file,
                         Get(file.data, "covered_lines", 0),
                         Get(file.data, "not_covered_lines", 0)))

RECURSIVE PackageMapFrom(_, _)
PackageMapFrom(package_map, files) ==
    IF files = << >> THEN package_map
    ELSE PackageMapFrom(AddPackageFile(package_map, Head(files)), Tail(files))

PackageMap(files) == PackageMapFrom([n \in {} |-> EmptyPackage], files)

\* line_coverage[line_num] = flag for line_num in range(start, end + 1)
MarkRows(line_coverage, rows, flag) ==
    [n \in DOMAIN line_coverage \cup rows |-> IF n \in rows THEN flag ELSE line_coverage[n]]

RECURSIVE MarkRegions(_, _, _)
MarkRegions(line_coverage, regions, flag) ==
    IF regions = << >> THEN line_coverage
    ELSE MarkRegions(MarkRows(line_coverage,
                              Head(regions).start.row .. Head(regions).end.row, flag),
                     Tail(regions), flag)

\* A slip: the covered regions are processed last, so that they overwrite.
LineCoverageCoveredLast(file_data) ==
    MarkRegions(MarkRegions([n \in {} |-> TRUE],
                            Get(file_data, "not_covered", << >>), FALSE),
                Get(file_data, "covered", << >>), TRUE)

\* The line_coverage dict of one file: covered regions first, then the
\* not-covered regions, which overwrite.
LineCoverage(file_data) ==
    MarkRegions(MarkRegions([n \in {} |-> TRUE],
                            Get(file_data, "covered", << >>), TRUE),
                Get(file_data, "not_covered", << >>), FALSE)

Smallest(S) == CHOOSE x \in S : \A y \in S : x <= y

\* sorted(line_coverage.keys())
RECURSIVE SortedInts(_)
SortedInts(S) ==
    IF S = {} THEN << >>
    ELSE << Smallest(S) >> \o SortedInts(S \ {Smallest(S)})

LineElementsOf(line_coverage, numbers) ==
    [i \in 1..Len(numbers) |->
        [number |-> numbers[i],
         hits   |-> IF line_coverage[numbers[i]] THEN 1 ELSE 0,
         branch |-> FALSE]]

\* The <line> elements of one file.
LineElements(file_data) ==
    LineElementsOf(LineCoverage(file_data), SortedInts(DOMAIN LineCoverage(file_data)))

\* filename.replace(".rego", "")
ClassName(filename) == SelectSeq(filename, LAMBDA t : t # ".rego")

\* The <class> element of one file.
ClassElement(file) ==
    [name      |-> ClassName(FileName(file.path)),
     filename  |-> file.path,
     line_rate |-> RoundRate(Percent(file.data.coverage)),
     methods   |-> << [name |-> "evaluate",
                       line_rate |-> RoundRate(Percent(file.data.coverage))] >>,
     lines     |-> LineElements(file.data)]

\* A slip: a package without counted lines is shown as fully covered.
PackageElementFullWhenEmpty(package_name, package_data) ==
    [name      |-> package_name,
     line_rate |-> IF package_data.total_lines > 0
                   THEN Round4(package_data.covered_lines, package_data.total_lines)
                   ELSE 10000,
     classes   |-> [i \in 1..Len(package_data.files) |->
                       ClassElement(package_data.files[i])]]

\* The <package> element of one directory.
PackageElement(package_name, package_data) ==
    [name      |-> package_name,
     line_rate |-> IF package_data.total_lines > 0
                   THEN Round4(package_data.covered_lines, package_data.total_lines)
                   ELSE 0,
     classes   |-> [i \in 1..Len(package_data.files) |->
                       ClassElement(package_data.files[i])]]

CoberturaReport(policy_metrics, package_map, package_names) ==
    [line_rate     |-> RoundRate(policy_metrics.coverage),
     lines_covered |-> policy_metrics.covered_lines,
     lines_valid   |-> policy_metrics.total_lines,
     packages |-> [i \in 1..Len(package_names) |->
                      PackageElement(package_names[i], package_map[package_names[i]])]]

CoberturaReportOf(policy_metrics, package_map) ==
    CoberturaReport(policy_metrics, package_map, Sorted(DOMAIN package_map))

create_cobertura_report(data) ==
    CoberturaReportOf(calculate_policy_only_coverage(data), PackageMap(data.files))

(***************************************************************************)
(* main() of the four scripts.  An input file is                           *)
(* [status |-> "ok", data |-> <the parsed JSON>], or has status "missing"  *)
(* (open raises FileNotFoundError) or "invalid" (json.load raises          *)
(* JSONDecodeError).                                                       *)
(***************************************************************************)
\* The except clauses of main: the message goes to stderr, the status is 1.
\* The messages are "File not found", "Invalid JSON format" and, for every
\* other exception, "Error".
Fatal(message) ==
    /\ stderr' = Append(stderr, message)
    /\ exit_code' = 1
    /\ pc' = "exit"

\* A slip: every failure to load is reported with the same message.
LoadErrorGeneric(file) == "Error"

LoadError(file) ==
    IF file.status = "missing" THEN "File not found" ELSE "Invalid JSON format"

\* test["package"] raises KeyError on a record without that key.
TestsRaise(tests) == \E i \in 1..Len(tests) : ~Has(tests[i], "package")

\* coverage_data["files"] raises KeyError on an object without that key.
CoverageRaises(data) == ~Has(data, "files")

\* parser.error(): the message goes to stderr, the status is 2.
UsageError ==
    /\ stderr' = Append(stderr, "Coverage threshold must be between 0 and 100")
    /\ exit_code' = 2
    /\ pc' = "exit"

\* A slip: only the upper end of the range is checked.
OutOfRangeAboveOnly(threshold) == threshold > 100000

\* not 0 <= threshold <= 100, in thousandths of a percent
OutOfRange(threshold) == ~(0 <= threshold /\ threshold <= 100000)

\* A slip: the document is written a second time.
WriteReportTwice(output, tree) == output \o << tree, tree >>

\* tree.write(output_xml): the document joins what was written to the output.
WriteReport(output, tree) == Append(output, tree)

(***************************************************************************)
(* opa_test_to_junit.py: main                                              *)
(***************************************************************************)
TestLoad ==
    /\ tool = "test"
    /\ pc = "start"
    /\ IF test_json.status = "ok"
       THEN /\ test_data' = test_json.data
            /\ pc' = "loaded"
            /\ UNCHANGED << stderr, exit_code >>
       ELSE /\ Fatal(LoadError(test_json))
            /\ UNCHANGED test_data
    /\ UNCHANGED << tool, pkg, names, test_json, coverage_json, coverage_threshold,
                    coverage_data, grouping, report, written, stdout >>

TestBuild ==
    /\ tool = "test"
    /\ pc = "loaded"
    /\ IF TestsRaise(test_data)
       THEN /\ Fatal("Error")
            /\ UNCHANGED << grouping, report >>
       ELSE /\ grouping' = GroupTests(test_data)
            /\ report' = create_test_report(test_data)
            /\ pc' = "built"
            /\ UNCHANGED << stderr, exit_code >>
    /\ UNCHANGED << tool, pkg, names, test_json, coverage_json, coverage_threshold,
                    test_data, coverage_data, written, stdout >>

TestWrite ==
    /\ tool = "test"
    /\ pc = "built"
    /\ written' = WriteReport(written, report)
    /\ pc' = "written"
    /\ UNCHANGED << tool, pkg, names, test_json, coverage_json, coverage_threshold,
                    test_data, coverage_data, grouping, report, stdout, stderr,
                    exit_code >>

TestSummaryText(total_tests, total_failures, total_errors, total_skipped) ==
    [total   |-> total_tests,
     passed  |-> total_tests - total_failures - total_errors - total_skipped,
     failed  |-> total_failures,
     errors  |-> total_errors,
     skipped |-> total_skipped]

\* The summary printed by main, and sys.exit(0).
TestSummary ==
    /\ tool = "test"
    /\ pc = "written"
    /\ stdout' = Append(stdout,
           TestSummaryText(Len(test_data),
                           CountOf(test_data, "fail"),
                           CountOf(test_data, "error"),
                           CountOf(test_data, "skip")))
    /\ exit_code' = 0
    /\ pc' = "exit"
    /\ UNCHANGED << tool, pkg, names, test_json, coverage_json, coverage_threshold,
                    test_data, coverage_data, grouping, report, written, stderr >>

TestNext == TestLoad \/ TestBuild \/ TestWrite \/ TestSummary

(***************************************************************************)
(* opa_combined_junit.py: main and create_combined_report                  *)
(***************************************************************************)
CombinedParse ==
    /\ tool = "combined"
    /\ pc = "start"
    /\ IF OutOfRange(coverage_threshold)
       THEN UsageError
       ELSE pc' = "parsed" /\ UNCHANGED << stderr, exit_code >>
    /\ UNCHANGED << tool, pkg, names, test_json, coverage_json, coverage_threshold,
                    test_data, coverage_data, grouping, report, written, stdout >>

\* The two json.load calls, test results first.
CombinedLoad ==
    /\ tool = "combined"
    /\ pc = "parsed"
    /\ IF test_json.status # "ok"
       THEN /\ Fatal(LoadError(test_json))
            /\ UNCHANGED << test_data, coverage_data >>
       ELSE IF coverage_json.status # "ok"
       THEN /\ Fatal(LoadError(coverage_json))
            /\ UNCHANGED << test_data, coverage_data >>
       ELSE /\ test_data' = test_json.data
            /\ coverage_data' = coverage_json.data
            /\ pc' = "loaded"
            /\ UNCHANGED << stderr, exit_code >>
    /\ UNCHANGED << tool, pkg, names, test_json, coverage_json, coverage_threshold,
                    grouping, report, written, stdout >>

\* A slip: a coverage equal to the threshold counts as a failure too.
CombinedTotalsInclusive(tests, overall_coverage, threshold) ==
    [tests    |-> Len(tests),
     failures |-> CountOf(tests, "fail")
                    + (IF overall_coverage <= threshold THEN 1 ELSE 0),
     errors   |-> CountOf(tests, "error"),
     skipped  |-> CountOf(tests, "skip")]

\* The combined totals: the flat counts over the test records, and one more
\* failure when the overall coverage is below the threshold.
CombinedTotals(tests, overall_coverage, threshold) ==
    [tests    |-> Len(tests),
     failures |-> CountOf(tests, "fail")
                    + (IF overall_coverage < threshold THEN 1 ELSE 0),
     errors   |-> CountOf(tests, "error"),
     skipped  |-> CountOf(tests, "skip")]

CombinedReport(totals, suites) ==
    [name     |-> "OPA Policy Test and Coverage Report",
     tests    |-> totals.tests,
     failures |-> totals.failures,
     errors   |-> totals.errors,
     skipped  |-> totals.skipped,
     suites   |-> suites]

CombinedBuild ==
    /\ tool = "combined"
    /\ pc = "loaded"
    /\ IF TestsRaise(test_data) \/ CoverageRaises(coverage_data)
       THEN /\ Fatal("Error")
            /\ UNCHANGED << grouping, report >>
       ELSE /\ grouping' = [tests    |-> GroupSummaryTests(test_data),
                            coverage |-> GroupSummaryCoverage(coverage_data.files)]
            /\ report' = CombinedReport(
                   CombinedTotals(test_data, RoundPercentage(coverage_data.coverage),
                                  coverage_threshold),
                   create_test_summary_and_suites(test_data)
                   \o create_coverage_summary_and_suites(coverage_data,
                                                         coverage_threshold))
            /\ pc' = "built"
            /\ UNCHANGED << stderr, exit_code >>
    /\ UNCHANGED << tool, pkg, names, test_json, coverage_json, coverage_threshold,
                    test_data, coverage_data, written, stdout >>

CombinedWrite ==
    /\ tool = "combined"
    /\ pc = "built"
    /\ written' = WriteReport(written, report)
    /\ pc' = "written"
    /\ UNCHANGED << tool, pkg, names, test_json, coverage_json, coverage_threshold,
                    test_data, coverage_data, grouping, report, stdout, stderr,
                    exit_code >>

\* return 1 if total_failures > 0 or overall_coverage < coverage_threshold else 0
CombinedExitCode(total_failures, overall_coverage, threshold) ==
    IF total_failures > 0 \/ overall_coverage < threshold THEN 1 ELSE 0

CombinedSummaryText(totals, data, overall_coverage, threshold, policy_files) ==
    [total   |-> totals.tests,
     passed  |-> totals.tests - totals.failures - totals.errors,
     failed  |-> totals.failures,
     errors  |-> totals.errors,
     overall |-> overall_coverage,
     threshold |-> threshold,
     status  |-> IF overall_coverage >= threshold THEN "PASS" ELSE "FAIL",
     covered |-> data.covered_lines,
     lines   |-> data.covered_lines + data.not_covered_lines,
     policy_files  |-> Len(policy_files),
     full_coverage |->
         Cardinality({ i \in 1..Len(policy_files) :
                         FileData(data.files, policy_files[i]).coverage = 100000 }),
     issues  |-> totals.failures]

\* The summary printed by create_combined_report, and sys.exit(exit_code).
CombinedSummary ==
    /\ tool = "combined"
    /\ pc = "written"
    /\ stdout' = Append(stdout,
           CombinedSummaryText(
               CombinedTotals(test_data, RoundPercentage(coverage_data.coverage),
                              coverage_threshold),
               coverage_data, RoundPercentage(coverage_data.coverage),
               coverage_threshold, PolicyFiles(coverage_data.files)))
    /\ exit_code' = CombinedExitCode(
           CombinedTotals(test_data, RoundPercentage(coverage_data.coverage),
                          coverage_threshold).failures,
           RoundPercentage(coverage_data.coverage), coverage_threshold)
    /\ pc' = "exit"
    /\ UNCHANGED << tool, pkg, names, test_json, coverage_json, coverage_threshold,
                    test_data, coverage_data, grouping, report, written, stderr >>

CombinedNext ==
    CombinedParse \/ CombinedLoad \/ CombinedBuild \/ CombinedWrite \/ CombinedSummary

(***************************************************************************)
(* opa_coverage_to_junit.py: main                                          *)
(***************************************************************************)
CoverageParse ==
    /\ tool = "coverage"
    /\ pc = "start"
    /\ IF OutOfRange(coverage_threshold)
       THEN UsageError
       ELSE pc' = "parsed" /\ UNCHANGED << stderr, exit_code >>
    /\ UNCHANGED << tool, pkg, names, test_json, coverage_json, coverage_threshold,
                    test_data, coverage_data, grouping, report, written, stdout >>

CoverageLoad ==
    /\ tool = "coverage"
    /\ pc = "parsed"
    /\ IF coverage_json.status = "ok"
       THEN /\ coverage_data' = coverage_json.data
            /\ pc' = "loaded"
            /\ UNCHANGED << stderr, exit_code >>
       ELSE /\ Fatal(LoadError(coverage_json))
            /\ UNCHANGED coverage_data
    /\ UNCHANGED << tool, pkg, names, test_json, coverage_json, coverage_threshold,
                    test_data, grouping, report, written, stdout >>

CoverageBuild ==
    /\ tool = "coverage"
    /\ pc = "loaded"
    /\ IF CoverageRaises(coverage_data)
       THEN /\ Fatal("Error")
            /\ UNCHANGED << grouping, report >>
       ELSE /\ grouping' = GroupCoverage(coverage_data.files)
            /\ report' = create_coverage_report(coverage_data, coverage_threshold)
            /\ pc' = "built"
            /\ UNCHANGED << stderr, exit_code >>
    /\ UNCHANGED << tool, pkg, names, test_json, coverage_json, coverage_threshold,
                    test_data, coverage_data, written, stdout >>

CoverageWrite ==
    /\ tool = "coverage"
    /\ pc = "built"
    /\ written' = WriteReport(written, report)
    /\ pc' = "written"
    /\ UNCHANGED << tool, pkg, names, test_json, coverage_json, coverage_threshold,
                    test_data, coverage_data, grouping, report, stdout, stderr,
                    exit_code >>

CoverageSummaryText(data, overall_coverage, threshold) ==
    [overall   |-> overall_coverage,
     threshold |-> threshold,
     status    |-> IF overall_coverage >= threshold THEN "PASS" ELSE "FAIL",
     covered   |-> data.covered_lines,
     lines     |-> data.covered_lines + data.not_covered_lines,
     policy_files |-> Len(PolicyFiles(data.files))]

\* exit_code = 0 if overall_coverage >= args.coverage_threshold else 1
CoverageExitCode(overall_coverage, threshold) ==
    IF overall_coverage >= threshold THEN 0 ELSE 1

CoverageSummary ==
    /\ tool = "coverage"
    /\ pc = "written"
    /\ stdout' = Append(stdout,
           CoverageSummaryText(coverage_data, RoundPercentage(coverage_data.coverage),
                               coverage_threshold))
    /\ exit_code' = CoverageExitCode(RoundPercentage(coverage_data.coverage),
                                     coverage_threshold)
    /\ pc' = "exit"
    /\ UNCHANGED << tool, pkg, names, test_json, coverage_json, coverage_threshold,
                    test_data, coverage_data, grouping, report, written, stderr >>

CoverageNext ==
    CoverageParse \/ CoverageLoad \/ CoverageBuild \/ CoverageWrite \/ CoverageSummary

(***************************************************************************)
(* opa_coverage_to_cobertura.py: main                                      *)
(***************************************************************************)
\* --coverage-threshold is optional here: None when it is not given.
CoberturaParse ==
    /\ tool = "cobertura"
    /\ pc = "start"
    /\ IF coverage_threshold # None /\ OutOfRange(coverage_threshold.value)
       THEN UsageError
       ELSE pc' = "parsed" /\ UNCHANGED << stderr, exit_code >>
    /\ UNCHANGED << tool, pkg, names, test_json, coverage_json, coverage_threshold,
                    test_data, coverage_data, grouping, report, written, stdout >>

CoberturaLoad ==
    /\ tool = "cobertura"
    /\ pc = "parsed"
    /\ IF coverage_json.status = "ok"
       THEN /\ coverage_data' = coverage_json.data
            /\ pc' = "loaded"
            /\ UNCHANGED << stderr, exit_code >>
       ELSE /\ Fatal(LoadError(coverage_json))
            /\ UNCHANGED coverage_data
    /\ UNCHANGED << tool, pkg, names, test_json, coverage_json, coverage_threshold,
                    test_data, grouping, report, written, stdout >>

CoberturaBuild ==
    /\ tool = "cobertura"
    /\ pc = "loaded"
    /\ IF CoverageRaises(coverage_data)
       THEN /\ Fatal("Error")
            /\ UNCHANGED << grouping, report >>
       ELSE /\ grouping' = [package_map    |-> PackageMap(coverage_data.files),
                            policy_metrics |-> calculate_policy_only_coverage(coverage_data)]
            /\ report' = create_cobertura_report(coverage_data)
            /\ pc' = "built"
            /\ UNCHANGED << stderr, exit_code >>
    /\ UNCHANGED << tool, pkg, names, test_json, coverage_json, coverage_threshold,
                    test_data, coverage_data, written, stdout >>

CoberturaWrite ==
    /\ tool = "cobertura"
    /\ pc = "built"
    /\ written' = WriteReport(written, report)
    /\ pc' = "written"
    /\ UNCHANGED << tool, pkg, names, test_json, coverage_json, coverage_threshold,
                    test_data, coverage_data, grouping, report, stdout, stderr,
                    exit_code >>

\* round(policy_metrics["coverage"], 2), in thousandths of a percent
RoundMetric(value) == ((200 * value.num + value.den) \div (2 * value.den)) * 10

\* if args.coverage_threshold: a threshold that is given and not 0.0
ThresholdGiven(threshold) == threshold # None /\ threshold.value # 0

CoberturaStatus(overall_coverage, threshold) ==
    IF ~ThresholdGiven(threshold) THEN "none"
    ELSE IF overall_coverage >= threshold.value THEN "PASS" ELSE "FAIL"

CoberturaSummaryText(policy_metrics, overall_coverage, threshold, data) ==
    [overall |-> overall_coverage,
     status  |-> CoberturaStatus(overall_coverage, threshold),
     covered |-> policy_metrics.covered_lines,
     lines   |-> policy_metrics.total_lines,
     policy_files |-> Len(PolicyFiles(data.files)),
     low_coverage_files |->
         { f \in SeqToSet(data.files) : ~IsTestFile(f.path) /\ f.data.coverage < 100000 }]

\* The summary printed by main, and sys.exit(0) whatever the status printed.
CoberturaSummary ==
    /\ tool = "cobertura"
    /\ pc = "written"
    /\ stdout' = Append(stdout,
           CoberturaSummaryText(grouping.policy_metrics,
                                RoundMetric(grouping.policy_metrics.coverage),
                                coverage_threshold, coverage_data))
    /\ exit_code' = 0
    /\ pc' = "exit"
    /\ UNCHANGED << tool, pkg, names, test_json, coverage_json, coverage_threshold,
                    test_data, coverage_data, grouping, report, written, stderr >>

CoberturaNext ==
    CoberturaParse \/ CoberturaLoad \/ CoberturaBuild \/ CoberturaWrite
    \/ CoberturaSummary

(***************************************************************************)
(* Inputs                                                                  *)
(***************************************************************************)
DefaultThreshold == 95000

Ok(data) == [status |-> "ok", data |-> data]

\* data.policy.foo_test and policy.foo_test share a policy; policy.bar_test
\* is another one
TestPackages ==
    { << "data", ".", "policy", ".", "foo", "_test" >>,
      << "policy", ".", "foo", "_test" >>,
      << "policy", ".", "bar", "_test" >> }

\* The i-th record of a result list: the test is named after its position
\* and ran for i milliseconds.
TestRecords(i) ==
    [package  : TestPackages,
     name     : { i },
     duration : { i * 1000000 },
     fail     : BOOLEAN,
     error    : { None, [code |-> "rego_type_error",
                        message |-> "undefined function"] },
     skip     : BOOLEAN,
     location : { [file |-> << "policy", "/", "foo", "_test", ".rego" >>, row |-> i] }]

RECURSIVE TestLists(_)
TestLists(n) ==
    IF n = 0 THEN { << >> }
    ELSE LET shorter == TestLists(n - 1)
         IN  shorter \cup { Append(l, r) : l \in { x \in shorter : Len(x) = n - 1 },
                                           r \in TestRecords(n) }

\* One policy file at 80% (40/10 lines) and its test file.
SampleCoverage ==
    [coverage |-> 88000, covered_lines |-> 66, not_covered_lines |-> 9,
     files |-> << [path |-> << "policy", "/", "foo", "/", "a", ".rego" >>,
                   data |-> [coverage |-> 80000, covered_lines |-> 40,
                             not_covered_lines |-> 10,
                             not_covered |-> << [start |-> [row |-> 3],
                                                 end |-> [row |-> 4]] >>]],
                  [path |-> << "policy", "/", "foo", "/", "a", "_test", ".rego" >>,
                   data |-> [coverage |-> 100000, covered_lines |-> 26,
                             not_covered_lines |-> 0]] >>]

(***************************************************************************)
(* Specification of the two tools that read test results, over every list  *)
(* of at most MaxTests records.                                            *)
(***************************************************************************)
InitTests ==
    /\ tool \in { "test", "combined" }
    /\ pc = "start"
    /\ pkg = << >>
    /\ names = << >>
    /\ test_json \in { Ok(l) : l \in TestLists(MaxTests) }
    /\ coverage_json = IF tool = "combined" THEN Ok(SampleCoverage) ELSE None
    /\ coverage_threshold = IF tool = "combined" THEN DefaultThreshold ELSE None
    /\ test_data = None
    /\ coverage_data = None
    /\ grouping = None
    /\ report = None
    /\ written = << >>
    /\ stdout = << >>
    /\ stderr = << >>
    /\ exit_code = None

NextTests == TestNext \/ CombinedNext

SpecTests == InitTests /\ [][NextTests]_vars

(***************************************************************************)
(* Specification of the three tools that read coverage data, over every    *)
(* files mapping of at most MaxFiles entries and over overall percentages  *)
(* and thresholds around each other.                                       *)
(***************************************************************************)
Region(start_row, end_row) == [start |-> [row |-> start_row], end |-> [row |-> end_row]]

\* Two areas under policy/, a test file, and a file outside policy/.
CoveragePaths ==
    { << "policy", "/", "foo", "/", "a", ".rego" >>,
      << "policy", "/", "foo", "/", "c", ".rego" >>,
      << "policy", "/", "foo", "/", "a", "_test", ".rego" >>,
      << "policy", "/", "bar", "/", "a", ".rego" >>,
      << "main", ".rego" >> }

\* A fully covered file, a partly covered one, one at 99.996%, one without
\* line counts and one with covered_lines only.
FileRecords ==
    { [coverage |-> 100000, covered_lines |-> 10, not_covered_lines |-> 0,
       covered |-> << Region(1, 2) >>],
      [coverage |-> 80000, covered_lines |-> 8, not_covered_lines |-> 2,
       covered |-> << Region(1, 2) >>, not_covered |-> << Region(3, 4) >>],
      [coverage |-> 99996, covered_lines |-> 99, not_covered_lines |-> 1,
       not_covered |-> << Region(7, 7) >>],
      [coverage |-> 90000],
      [coverage |-> 100000, covered_lines |-> 5] }

\* The files mappings of at most n entries, in every order of insertion.
RECURSIVE FileMaps(_)
FileMaps(n) ==
    IF n = 0 THEN { << >> }
    ELSE FileMaps(n - 1)
         \cup { Append(m, [path |-> p, data |-> d]) :
                  m \in { x \in FileMaps(n - 1) : Len(x) = n - 1 },
                  p \in CoveragePaths, d \in FileRecords }

CoverageOf(overall, files) ==
    [coverage |-> overall, covered_lines |-> 66, not_covered_lines |-> 9,
     files |-> files]

\* The runs: a coverage input and a threshold.
CoverageRuns ==
    { << CoverageOf(88000, m), DefaultThreshold >> :
          m \in { x \in FileMaps(MaxFiles) :
                    \A i, j \in 1..Len(x) : x[i].path = x[j].path => i = j } }
    \cup { << CoverageOf(c, SampleCoverage.files), t >> :
          c \in { 0, 80000, 94990, 94996, 95000, 95004, 100000 },
          t \in { 0, 80000, 95000, 95004, 100000 } }

SampleTests ==
    << [package |-> << "data", ".", "policy", ".", "foo", "_test" >>, name |-> 1,
        duration |-> 1000000, fail |-> FALSE, error |-> None, skip |-> FALSE,
        location |-> [file |-> << "policy", "/", "foo", "_test", ".rego" >>,
                      row |-> 1]] >>

InitCov ==
    /\ tool \in { "combined", "coverage", "cobertura" }
    /\ pc = "start"
    /\ pkg = << >>
    /\ names = << >>
    /\ test_json = IF tool = "combined" THEN Ok(SampleTests) ELSE None
    /\ \E run \in CoverageRuns :
          /\ coverage_json = Ok(run[1])
          /\ coverage_threshold =
                 IF tool = "cobertura" THEN [value |-> run[2]] ELSE run[2]
    /\ test_data = None
    /\ coverage_data = None
    /\ grouping = None
    /\ report = None
    /\ written = << >>
    /\ stdout = << >>
    /\ stderr = << >>
    /\ exit_code = None

NextCov == CombinedNext \/ CoverageNext \/ CoberturaNext

SpecCov == InitCov /\ [][NextCov]_vars

(***************************************************************************)
(* Specification of the Cobertura tool over one file whose covered and     *)
(* not-covered region lists range over rows 1..MaxLine, and over files     *)
(* whose line counts range.                                                *)
(***************************************************************************)
\* The regions over the rows, an inverted one (an empty range) included.
Regions ==
    { Region(x[1], x[2]) :
        x \in { y \in (1..MaxLine) \X (0..MaxLine) : y[1] <= y[2] + 1 } }

WithRegions(covered, not_covered) ==
    [coverage |-> 80000, covered_lines |-> 8, not_covered_lines |-> 2,
     covered |-> covered, not_covered |-> not_covered]

\* A short list that leaves the rows alone, covers one or covers them all.
FewRegions == { << >>, << Region(2, 2) >>, << Region(1, MaxLine) >> }

\* Both lists, one of them any list of at most MaxRegions regions, or one or
\* both of the keys missing.
LineRecords ==
    { WithRegions(c, n) : c \in SeqsUpTo(Regions, MaxRegions), n \in FewRegions }
    \cup { WithRegions(c, n) : c \in FewRegions, n \in SeqsUpTo(Regions, MaxRegions) }
    \cup { [coverage |-> 80000, covered_lines |-> 8, not_covered_lines |-> 2,
            covered |-> c] : c \in FewRegions }
    \cup { [coverage |-> 80000, covered_lines |-> 8, not_covered_lines |-> 2,
            not_covered |-> n] : n \in FewRegions }
    \cup { [coverage |-> 80000, covered_lines |-> 8, not_covered_lines |-> 2] }

\* The records whose line counts range over 0..MaxLine and 50, with the
\* percentage OPA derives from them, and the records that lack a count.
CountRecords ==
    { [coverage |-> IF c + n > 0 THEN (100000 * c) \div (c + n) ELSE 0,
       covered_lines |-> c, not_covered_lines |-> n] :
          c \in (0..MaxLine) \cup { 50 }, n \in (0..MaxLine) \cup { 50 } }
    \cup { [coverage |-> 100000, covered_lines |-> c] : c \in (0..MaxLine) \cup { 50 } }
    \cup { [coverage |-> 0, not_covered_lines |-> n] : n \in (0..MaxLine) \cup { 50 } }
    \cup { [coverage |-> 90000] }

\* policy/foo/a.rego with any of these records, alone or before a file of
\* another directory, a second file of its directory or its test file.
CountMaps ==
    { << [path |-> << "policy", "/", "foo", "/", "a", ".rego" >>, data |-> d] >> :
          d \in CountRecords }
    \cup { << [path |-> << "policy", "/", "foo", "/", "a", ".rego" >>, data |-> d], o >> :
          d \in CountRecords,
          o \in { [path |-> << "policy", "/", "bar", "/", "a", ".rego" >>,
                   data |-> [coverage |-> 0, covered_lines |-> 0, not_covered_lines |-> 0]],
                  [path |-> << "policy", "/", "bar", "/", "a", ".rego" >>,
                   data |-> [coverage |-> 90000]],
                  [path |-> << "policy", "/", "foo", "/", "c", ".rego" >>,
                   data |-> [coverage |-> 50000, covered_lines |-> 1, not_covered_lines |-> 1]],
                  [path |-> << "policy", "/", "foo", "/", "a", "_test", ".rego" >>,
                   data |-> [coverage |-> 75000, covered_lines |-> 3, not_covered_lines |-> 1]] } }

InitLines ==
    /\ tool = "cobertura"
    /\ pc = "start"
    /\ pkg = << >>
    /\ names = << >>
    /\ test_json = None
    /\ coverage_json \in
           { Ok(CoverageOf(88000,
                           << [path |-> << "policy", "/", "foo", "/", "a", ".rego" >>,
                               data |-> d] >>)) : d \in LineRecords }
           \cup { Ok(CoverageOf(88000, m)) : m \in CountMaps }
    /\ coverage_threshold = None
    /\ test_data = None
    /\ coverage_data = None
    /\ grouping = None
    /\ report = None
    /\ written = << >>
    /\ stdout = << >>
    /\ stderr = << >>
    /\ exit_code = None

SpecLines == InitLines /\ [][CoberturaNext]_vars

(***************************************************************************)
(* Specification of the four tools: every command line and input file,     *)
(* readable or not, over short test lists, a fixed files mapping and the   *)
(* mappings of one file at each of the paths of AreaPaths.                 *)
(***************************************************************************)
\* The lists of at most one record, a list whose record has no package, a
\* missing file and a file that is not JSON.
TestInputs ==
    { Ok(l) : l \in TestLists(1) }
    \cup { Ok(<< [name |-> 1, duration |-> 1000000] >>),
           [status |-> "missing"], [status |-> "invalid"] }

\* a.rego under every directory of at most MaxDepth segments named policy or
\* foo
AreaPaths ==
    { Join(d \o << << "a", ".rego" >> >>, "/") :
          d \in SeqsUpTo({ << "policy" >>, << "foo" >> }, MaxDepth) }

CoverageInputs ==
    { Ok(CoverageOf(c, SampleCoverage.files)) : c \in { 80000, 94996, 95000, 100000 } }
    \cup { Ok(CoverageOf(88000,
                         << [path |-> p,
                             data |-> [coverage |-> 80000, covered_lines |-> 8,
                                       not_covered_lines |-> 2]] >>)) : p \in AreaPaths }
    \cup { Ok([coverage |-> 88000, covered_lines |-> 66, not_covered_lines |-> 9]),
           [status |-> "missing"], [status |-> "invalid"] }

\* --coverage-threshold values, some of them outside [0, 100]
ThresholdArgs == { 0 - 1000, 0, 95000, 100000, 100010 }

Init ==
    /\ tool \in { "test", "combined", "coverage", "cobertura" }
    /\ pc = "start"
    /\ pkg = << >>
    /\ names = << >>
    /\ test_json \in IF tool \in { "test", "combined" } THEN TestInputs ELSE { None }
    /\ coverage_json \in IF tool = "test" THEN { None } ELSE CoverageInputs
    /\ coverage_threshold \in
           IF tool = "test" THEN { None }
           ELSE IF tool = "cobertura"
           THEN { None } \cup { [value |-> t] : t \in ThresholdArgs }
           ELSE ThresholdArgs
    /\ test_data = None
    /\ coverage_data = None
    /\ grouping = None
    /\ report = None
    /\ written = << >>
    /\ stdout = << >>
    /\ stderr = << >>
    /\ exit_code = None

Next == TestNext \/ CombinedNext \/ CoverageNext \/ CoberturaNext

Spec == Init /\ [][Next]_vars

(***************************************************************************)
(* Specification of the four tools over both the test lists of SpecTests   *)
(* and the coverage runs of SpecCov.                                       *)
(***************************************************************************)
InitOrder == InitTests \/ InitCov

SpecOrder == InitOrder /\ [][Next]_vars

(***************************************************************************)
(* Properties of the grouping of test records, checked under SpecTests.    *)
(***************************************************************************)
Built == pc \in { "built", "written" }

\* The test groups built by the running tool.
TestGroups == IF tool = "test" THEN grouping ELSE grouping.tests

GroupCounts(groups) ==
    [n \in DOMAIN groups |->
        [tests    |-> Len(groups[n].tests),
         failures |-> groups[n].failures,
         errors   |-> groups[n].errors,
         skipped  |-> groups[n].skipped]]

SumOverGroups(groups, field) ==
    SumField(GroupCounts(groups), Sorted(DOMAIN groups), field)

\* The records of the input list whose package normalizes to the policy.
RecordsOf(policy_name) ==
    SelectSeq(test_data, LAMBDA t : PolicyName(t.package) = policy_name)

\* C1: In the Test Report builder and in the Combined builder, the sums over
\* all policy groups of the groups' test count, failures, errors and skipped
\* equal the number of records and the numbers of records with fail, error
\* and skip set, counted over the flat input list.
C1_GroupSumsEqualFlatCounts ==
    (Built /\ tool \in { "test", "combined" }) =>
        /\ SumOverGroups(TestGroups, "tests") = Len(test_data)
        /\ SumOverGroups(TestGroups, "failures")
               = Cardinality({ i \in 1..Len(test_data) : test_data[i].fail })
        /\ SumOverGroups(TestGroups, "errors")
               = Cardinality({ i \in 1..Len(test_data) : IsSet(test_data[i].error) })
        /\ SumOverGroups(TestGroups, "skipped")
               = Cardinality({ i \in 1..Len(test_data) : test_data[i].skip })

\* Two groups, a failing record in one and an erroring record in the other.
C1_Witness ==
    /\ Built
    /\ tool = "test"
    /\ Len(test_data) = 2
    /\ Cardinality(DOMAIN grouping) = 2
    /\ test_data[1].fail /\ ~IsSet(test_data[1].error)
    /\ IsSet(test_data[2].error) /\ ~test_data[2].fail /\ test_data[2].skip

CombinedTestCases == report.suites[1].cases

\* C8: The Combined Report's test suite has exactly one case per policy
\* group; the case's name states the group's tests, failures, errors and
\* skipped, and the case carries a failure annotation exactly when the group
\* has at least one failure or at least one error.
C8_OneCasePerPolicy ==
    (Built /\ tool = "combined") =>
        /\ Len(CombinedTestCases)
               = Cardinality({ PolicyName(test_data[i].package) : i \in 1..Len(test_data) })
        /\ { CombinedTestCases[i].name.policy : i \in 1..Len(CombinedTestCases) }
               = { PolicyName(test_data[i].package) : i \in 1..Len(test_data) }
        /\ \A i \in 1..Len(CombinedTestCases) :
              /\ CombinedTestCases[i].name.tests
                     = Len(RecordsOf(CombinedTestCases[i].name.policy))
              /\ CombinedTestCases[i].name.failures
                     = Len(SelectSeq(RecordsOf(CombinedTestCases[i].name.policy),
                                   LAMBDA t : t.fail))
              /\ CombinedTestCases[i].name.errors
                     = Len(SelectSeq(RecordsOf(CombinedTestCases[i].name.policy),
                                   LAMBDA t : IsSet(t.error)))
              /\ CombinedTestCases[i].name.skipped
                     = Len(SelectSeq(RecordsOf(CombinedTestCases[i].name.policy),
                                   LAMBDA t : t.skip))
              /\ (CombinedTestCases[i].failure # None)
                     <=> \E k \in 1..Len(test_data) :
                            /\ PolicyName(test_data[k].package)
                                   = CombinedTestCases[i].name.policy
                            /\ (test_data[k].fail \/ IsSet(test_data[k].error))

\* Two records of package data.policy.foo_test, one of them failing: the
\* single case "policy.foo: 2 tests, 1 failures, 0 errors, 0 skipped", failed.
C8_Witness ==
    /\ Built
    /\ tool = "combined"
    /\ Len(test_data) = 2
    /\ \A i \in 1..2 :
          /\ test_data[i].package = << "data", ".", "policy", ".", "foo", "_test" >>
          /\ ~IsSet(test_data[i].error)
          /\ ~test_data[i].skip
    /\ test_data[1].fail /\ ~test_data[2].fail
    /\ Len(CombinedTestCases) = 1
    /\ CombinedTestCases[1].name
           = [policy |-> << "policy", ".", "foo" >>, tests |-> 2, failures |-> 1,
              errors |-> 0, skipped |-> 0]
    /\ CombinedTestCases[1].failure # None

\* The (suite, case) positions of the Test Report that hold the i-th record.
CasesOf(i) ==
    { sc \in (1..Len(test_data)) \X (1..Len(test_data)) :
        /\ sc[1] <= Len(report.suites)
        /\ sc[2] <= Len(report.suites[sc[1]].cases)
        /\ report.suites[sc[1]].cases[sc[2]].name = test_data[i].name }

\* C10: Every test record belongs to exactly one policy group, the one keyed
\* by the normalized name of its package, and appears in the Test Report as
\* exactly one case inside exactly one suite, the suite of that group.
C10_OneGroupOneCase ==
    (Built /\ tool = "test") =>
        \A i \in 1..Len(test_data) :
            /\ { n \in DOMAIN grouping :
                    \E k \in 1..Len(grouping[n].tests) :
                        grouping[n].tests[k] = test_data[i] }
                   = { PolicyName(test_data[i].package) }
            /\ Cardinality({ k \in 1..Len(grouping[PolicyName(test_data[i].package)].tests) :
                    grouping[PolicyName(test_data[i].package)].tests[k] = test_data[i] }) = 1
            /\ Cardinality(CasesOf(i)) = 1
            /\ \A sc \in CasesOf(i) :
                  report.suites[sc[1]].name = PolicyName(test_data[i].package)

\* Two records of differently written packages of one policy share a suite.
C10_Witness ==
    /\ Built
    /\ tool = "test"
    /\ Len(test_data) = 2
    /\ test_data[1].package # test_data[2].package
    /\ Len(report.suites) = 1
    /\ Len(report.suites[1].cases) = 2

(***************************************************************************)
(* Properties of the coverage reports, checked under SpecCov.              *)
(***************************************************************************)
\* The coverage input with every test file record removed.
WithoutTestFiles(data) ==
    [data EXCEPT !.files = SelectSeq(data.files, LAMBDA f : ~IsTestFile(f.path))]

\* The file lists of all groups of a grouping, as one set of paths.
GroupedPaths(groups) ==
    UNION { SeqToSet(groups[a].files) : a \in DOMAIN groups }

\* C5: No file whose path ends in _test.rego contributes to a policy group
\* or to an overall figure: the groups hold no such file, and the groups and
\* the whole report of the Combined, Coverage-Only and Cobertura builders are
\* those built from the input with every such file record removed.
C5_TestFilesContributeNothing ==
    (Built /\ tool \in { "combined", "coverage", "cobertura" }) =>
        IF tool = "combined"
        THEN /\ \A p \in GroupedPaths(grouping.coverage) : ~IsTestFile(p)
             /\ grouping.coverage
                    = GroupSummaryCoverage(WithoutTestFiles(coverage_data).files)
             /\ SubSeq(report.suites, 2, Len(report.suites))
                    = create_coverage_summary_and_suites(
                          WithoutTestFiles(coverage_data), coverage_threshold)
             /\ report.suites[2].properties.overall_coverage
                    = RoundPercentage(coverage_data.coverage)
        ELSE IF tool = "coverage"
        THEN /\ \A p \in GroupedPaths(grouping) : ~IsTestFile(p)
             /\ grouping = GroupCoverage(WithoutTestFiles(coverage_data).files)
             /\ report = create_coverage_report(WithoutTestFiles(coverage_data),
                                                coverage_threshold)
             /\ report.suites[1].properties.overall_coverage
                    = RoundPercentage(coverage_data.coverage)
        ELSE /\ \A n \in DOMAIN grouping.package_map :
                    \A i \in 1..Len(grouping.package_map[n].files) :
                        ~IsTestFile(grouping.package_map[n].files[i].path)
             /\ grouping.policy_metrics
                    = calculate_policy_only_coverage(WithoutTestFiles(coverage_data))
             /\ report = create_cobertura_report(WithoutTestFiles(coverage_data))

\* A partly covered test file next to a policy file of the same directory.
C5_Witness ==
    /\ Built
    /\ tool = "combined"
    /\ Len(coverage_data.files) = 2
    /\ coverage_data.files[1].path = << "policy", "/", "foo", "/", "a", "_test", ".rego" >>
    /\ coverage_data.files[1].data.coverage = 80000
    /\ coverage_data.files[2].path = << "policy", "/", "foo", "/", "a", ".rego" >>
    /\ coverage_data.files[2].data.coverage = 100000
    /\ Len(report.suites[2].cases) = 1
    /\ report.suites[2].cases[1].failure = None

\* The verdict of the Coverage-Only Report: root and suite failures are 1 and
\* the single case carries a failure annotation, or all three say "passed".
CoverageOnlyFailed ==
    /\ report.failures = 1
    /\ report.suites[1].failures = 1
    /\ report.suites[1].cases[1].failure # None

CoverageOnlyPassed ==
    /\ report.failures = 0
    /\ report.suites[1].failures = 0
    /\ report.suites[1].cases[1].failure = None

\* C6 as stated: the Coverage-Only Report declares failure if and only if
\* the overall coverage of the input is below the threshold.
C6_FailsIffBelowThreshold ==
    (Built /\ tool = "coverage") =>
        /\ CoverageOnlyFailed \/ CoverageOnlyPassed
        /\ CoverageOnlyFailed <=> coverage_data.coverage < coverage_threshold

\* C6: The Coverage-Only Report declares failure if and only if the overall
\* coverage rounded to two decimals is below the threshold; a rounded
\* coverage equal to the threshold passes, and the files have no effect.
C6_FailsIffRoundedBelowThreshold ==
    (Built /\ tool = "coverage") =>
        /\ CoverageOnlyFailed \/ CoverageOnlyPassed
        /\ CoverageOnlyFailed
               <=> RoundPercentage(coverage_data.coverage) < coverage_threshold

\* 94.996% against a threshold of 95.0 rounds to the threshold and passes,
\* with a file at 80%.
C6_Witness ==
    /\ Built
    /\ tool = "coverage"
    /\ coverage_data.coverage = 94996
    /\ coverage_threshold = 95000
    /\ \E i \in 1..Len(coverage_data.files) : coverage_data.files[i].data.coverage = 80000
    /\ CoverageOnlyPassed

CoverageCases == report.suites[2].cases

\* C7: In the Combined Report's Coverage Summary suite the case of a policy
\* area carries a failure annotation if and only if at least one non-test
\* file grouped into that area has coverage strictly below 100.
C7_FailureIffIncompleteFile ==
    (Built /\ tool = "combined") =>
        \A i \in 1..Len(CoverageCases) :
            (CoverageCases[i].failure # None)
                <=> \E k \in 1..Len(coverage_data.files) :
                       /\ ~IsTestFile(coverage_data.files[k].path)
                       /\ PolicyArea(coverage_data.files[k].path)
                              = CoverageCases[i].name.area
                       /\ coverage_data.files[k].data.coverage < 100000

\* An area whose average shows as 100.0 and meets the threshold, failed for
\* its file at 99.996%.
C7_Witness ==
    /\ Built
    /\ tool = "combined"
    /\ Len(coverage_data.files) = 2
    /\ coverage_data.files[1].data.coverage = 100000
    /\ coverage_data.files[2].data.coverage = 99996
    /\ Len(CoverageCases) = 1
    /\ CoverageCases[1].name.coverage = 100000
    /\ CoverageCases[1].name.coverage >= coverage_threshold
    /\ CoverageCases[1].failure # None

(***************************************************************************)
(* Properties of the line entries, checked under SpecLines.                *)
(***************************************************************************)
\* The rows of the regions of a list, as one set.
RowsOf(regions) ==
    UNION { regions[i].start.row .. regions[i].end.row : i \in 1..Len(regions) }

CoveredRows(file_data) == RowsOf(Get(file_data, "covered", << >>))

NotCoveredRows(file_data) == RowsOf(Get(file_data, "not_covered", << >>))

\* The line entries are those of the rows, ascending, with hits 0 exactly on
\* the rows of a not-covered region.
LinesAre(lines, file_data) ==
    /\ { lines[i].number : i \in 1..Len(lines) }
           = CoveredRows(file_data) \cup NotCoveredRows(file_data)
    /\ \A i \in 1..Len(lines) - 1 : lines[i].number < lines[i + 1].number
    /\ \A i \in 1..Len(lines) :
          lines[i].hits = IF lines[i].number \in NotCoveredRows(file_data) THEN 0 ELSE 1

\* C9: In the Cobertura-style report the line entries of each included file
\* are exactly the line numbers lying in a covered or not-covered range of
\* the file, each once and ascending, and a line has hits 0 if it lies in a
\* not-covered range and hits 1 otherwise.
C9_LineEntries ==
    (Built /\ tool = "cobertura") =>
        \A p \in 1..Len(report.packages) :
            \A c \in 1..Len(report.packages[p].classes) :
                LinesAre(report.packages[p].classes[c].lines,
                         FileData(coverage_data.files,
                                  report.packages[p].classes[c].filename))

\* Row 2 lies in the covered range 1-3 and in the not-covered range 2-2.
C9_Witness ==
    /\ Built
    /\ tool = "cobertura"
    /\ Len(coverage_data.files) = 1
    /\ Has(coverage_data.files[1].data, "covered")
    /\ Has(coverage_data.files[1].data, "not_covered")
    /\ coverage_data.files[1].data.covered = << Region(1, 3) >>
    /\ coverage_data.files[1].data.not_covered = << Region(2, 2) >>
    /\ report.packages[1].classes[1].lines
           = << [number |-> 1, hits |-> 1, branch |-> FALSE],
                [number |-> 2, hits |-> 0, branch |-> FALSE],
                [number |-> 3, hits |-> 1, branch |-> FALSE] >>

(***************************************************************************)
(* Properties of the exit status, checked under Spec.                      *)
(***************************************************************************)
\* The run printed its summary and exited.
Completed == pc = "exit" /\ stdout # << >>

HasFailingTest == \E i \in 1..Len(test_data) : test_data[i].fail

\* The verdict each tool prints: a failing test, or the overall coverage it
\* reports below the threshold it was given.
VerdictIsFailure ==
    IF tool = "test" THEN HasFailingTest
    ELSE IF tool = "combined"
    THEN HasFailingTest \/ RoundPercentage(coverage_data.coverage) < coverage_threshold
    ELSE IF tool = "coverage"
    THEN RoundPercentage(coverage_data.coverage) < coverage_threshold
    ELSE /\ ThresholdGiven(coverage_threshold)
         /\ RoundMetric(grouping.policy_metrics.coverage) < coverage_threshold.value

\* C2: In every tool the exit status of a completed run is 0 unless a test
\* failed or the overall coverage is below the threshold, and is non-zero in
\* either of those cases.
C2_ExitStatusTellsVerdict ==
    Completed => ((exit_code # 0) <=> VerdictIsFailure)

(***************************************************************************)
(* Properties of the coverage groups, checked under SpecCov.               *)
(***************************************************************************)
\* The coverage groups built by the running tool.
CoverageGroups == IF tool = "combined" THEN grouping.coverage ELSE grouping

\* The sum of a line-count field (0 where the record lacks it) over the
\* non-test files of the input that belong to the policy area.
RECURSIVE AreaLines(_, _, _)
AreaLines(files, policy_area, key) ==
    IF files = << >> THEN 0
    ELSE (IF ~IsTestFile(Head(files).path) /\ PolicyArea(Head(files).path) = policy_area
          THEN Get(Head(files).data, key, 0) ELSE 0)
         + AreaLines(Tail(files), policy_area, key)

\* C11: For every coverage policy group of the Combined and Coverage-Only
\* builders, covered_lines and not_covered_lines are the sums of the fields of
\* the same names over the group's files, total_lines is the sum of both over
\* the group's files and equals covered_lines + not_covered_lines, and test
\* files add nothing.
C11_GroupLineTotals ==
    (Built /\ tool \in { "combined", "coverage" }) =>
        \A a \in DOMAIN CoverageGroups :
            /\ CoverageGroups[a].covered_lines
                   = AreaLines(coverage_data.files, a, "covered_lines")
            /\ CoverageGroups[a].not_covered_lines
                   = AreaLines(coverage_data.files, a, "not_covered_lines")
            /\ CoverageGroups[a].total_lines
                   = AreaLines(coverage_data.files, a, "covered_lines")
                     + AreaLines(coverage_data.files, a, "not_covered_lines")
            /\ CoverageGroups[a].total_lines
                   = CoverageGroups[a].covered_lines + CoverageGroups[a].not_covered_lines

(***************************************************************************)
(* Properties of the rendering of files without line counts, checked under *)
(* SpecCov.                                                                *)
(***************************************************************************)
\* The lines of the Coverage-Only detail text from the header of the area up
\* to the next header.
SectionLines(lines, policy_area) ==
    LET h    == CHOOSE i \in 1..Len(lines) :
                    lines[i].kind = "policy" /\ lines[i].area = policy_area
        ends == { j \in (h + 1)..Len(lines) : lines[j].kind = "policy" }
    IN  SubSeq(lines, h, IF ends = {} THEN Len(lines) ELSE Smallest(ends) - 1)

\* The rendered name of a policy area: the name of its case in the Combined
\* Report, its header line in the Coverage-Only Report.
AreaNameOf(policy_area) ==
    IF tool = "combined"
    THEN (CHOOSE c \in SeqToSet(report.suites[2].cases) : c.name.area = policy_area).name
    ELSE SectionLines(report.suites[1].cases[1].system_out, policy_area)[1]

\* The detail lines rendered under a policy area.
AreaDetails(policy_area) ==
    IF tool = "combined"
    THEN (CHOOSE c \in SeqToSet(report.suites[2].cases) :
              c.name.area = policy_area).system_out
    ELSE SectionLines(report.suites[1].cases[1].system_out, policy_area)

\* The line rendered for a file.
FileLine(file_path) ==
    CHOOSE l \in SeqToSet(AreaDetails(PolicyArea(file_path))) :
        l.kind = "file" /\ l.filename = FileName(file_path)

\* The non-test files of the input, as a set of [path, data].
RenderedFiles == { f \in SeqToSet(coverage_data.files) : ~IsTestFile(f.path) }

\* The record lacks covered_lines, not_covered_lines or both.
LacksLineCounts(file_data) ==
    ~Has(file_data, "covered_lines") \/ ~Has(file_data, "not_covered_lines")

\* The record has the fields on which the running builder renders a fraction.
RendersFraction(file_data) ==
    IF tool = "combined" THEN HasLineCounts(file_data)
    ELSE Has(file_data, "covered_lines")

\* The run was not aborted: nothing went to the error channel, and a run that
\* ended wrote its report.
NeverAborted ==
    /\ stderr = << >>
    /\ pc = "exit" => (written = << report >> /\ stdout # << >>)

\* C12 as stated: a file record lacking covered_lines, not_covered_lines or
\* both never aborts a builder, and the file, and a group made only of such
\* files, is rendered with its percentage only.
C12_PercentageOnlyWhenAnyMissing ==
    /\ NeverAborted
    /\ (Built /\ tool \in { "combined", "coverage" }) =>
          /\ \A f \in RenderedFiles :
                LacksLineCounts(f.data) => ~Has(FileLine(f.path), "covered")
          /\ \A a \in DOMAIN CoverageGroups :
                (\A f \in RenderedFiles : PolicyArea(f.path) = a => LacksLineCounts(f.data))
                    => ~Has(AreaNameOf(a), "covered")

\* C12: a file record lacking line-count fields never aborts a builder.  The
\* Combined builder renders a file with a line fraction exactly when the
\* record has both fields, the Coverage-Only builder exactly when it has
\* covered_lines (a missing not_covered_lines counts as 0); every other file,
\* and a group made only of such files, is rendered with its percentage only.
C12_PercentageOnlyWhenNotCounted ==
    /\ NeverAborted
    /\ (Built /\ tool \in { "combined", "coverage" }) =>
          /\ \A f \in RenderedFiles :
                /\ Has(FileLine(f.path), "covered") <=> RendersFraction(f.data)
                /\ Has(FileLine(f.path), "total") <=> RendersFraction(f.data)
                /\ FileLine(f.path).coverage = RoundPercentage(f.data.coverage)
                /\ RendersFraction(f.data) =>
                      /\ FileLine(f.path).covered = f.data.covered_lines
                      /\ FileLine(f.path).total
                             = f.data.covered_lines + Get(f.data, "not_covered_lines", 0)
          /\ \A a \in DOMAIN CoverageGroups :
                (\A f \in RenderedFiles : PolicyArea(f.path) = a => ~RendersFraction(f.data))
                    => (~Has(AreaNameOf(a), "covered") /\ ~Has(AreaNameOf(a), "total"))

\* The Coverage-Only Report of an area with a file that has no line counts,
\* shown with its percentage only, and a file that has covered_lines only,
\* shown as 5/5 lines.
C12_Witness ==
    /\ Built
    /\ tool = "coverage"
    /\ Len(coverage_data.files) = 2
    /\ coverage_data.files[1]
           = [path |-> << "policy", "/", "foo", "/", "a", ".rego" >>,
              data |-> [coverage |-> 90000]]
    /\ coverage_data.files[2]
           = [path |-> << "policy", "/", "foo", "/", "c", ".rego" >>,
              data |-> [coverage |-> 100000, covered_lines |-> 5]]
    /\ FileLine(coverage_data.files[1].path)
           = [kind |-> "file", status |-> "bad", filename |-> << "a", ".rego" >>,
              coverage |-> 90000]
    /\ FileLine(coverage_data.files[2].path)
           = [kind |-> "file", status |-> "ok", filename |-> << "c", ".rego" >>,
              coverage |-> 100000, covered |-> 5, total |-> 5]

(***************************************************************************)
(* Properties of the Combined Report's top-level tally, checked under Spec.*)
(***************************************************************************)
\* The number of cases of the Coverage Summary suite that carry a failure.
FailedAreas ==
    Cardinality({ i \in 1..Len(report.suites[2].cases) :
                    report.suites[2].cases[i].failure # None })

\* The flat counts over the test records.
FlatTally ==
    [tests    |-> Len(test_data),
     failures |-> Cardinality({ i \in 1..Len(test_data) : test_data[i].fail }),
     errors   |-> Cardinality({ i \in 1..Len(test_data) : IsSet(test_data[i].error) }),
     skipped  |-> Cardinality({ i \in 1..Len(test_data) : test_data[i].skip })]

\* C13 as stated: the Combined Report's top-level failures are the records
\* with fail set, plus one exactly when the overall coverage of the input is
\* below the threshold; tests, errors and skipped are the flat counts.
C13_TallyAddsOneBelowThreshold ==
    (Built /\ tool = "combined") =>
        /\ report.failures
               = FlatTally.failures
                 + (IF coverage_data.coverage < coverage_threshold THEN 1 ELSE 0)
        /\ report.tests = FlatTally.tests
        /\ report.errors = FlatTally.errors
        /\ report.skipped = FlatTally.skipped

\* C13: the Combined Report's top-level failures are the records with fail
\* set, plus one exactly when the overall coverage rounded to two decimals is
\* below the threshold; the failed cases of the Coverage Summary suite add
\* nothing, and tests, errors and skipped are the flat counts.
C13_TallyAddsOneBelowRoundedThreshold ==
    (Built /\ tool = "combined") =>
        /\ report.failures
               = FlatTally.failures
                 + (IF RoundPercentage(coverage_data.coverage) < coverage_threshold
                    THEN 1 ELSE 0)
        /\ report.tests = FlatTally.tests
        /\ report.errors = FlatTally.errors
        /\ report.skipped = FlatTally.skipped

\* One failing record, a coverage of 94.996 that rounds to the threshold of
\* 95.0, and an area with an incomplete file: the tally is 1.
C13_Witness ==
    /\ Built
    /\ tool = "combined"
    /\ Len(test_data) = 1
    /\ test_data[1].fail
    /\ coverage_data.coverage = 94996
    /\ coverage_threshold = 95000
    /\ FailedAreas = 1
    /\ report.failures = 1
    /\ report.tests = 1

(***************************************************************************)
(* Properties of the order of the groups, checked under SpecOrder.         *)
(***************************************************************************)
StrictlyAscending(seq) == \A i \in 1..(Len(seq) - 1) : StrLess(seq[i], seq[i + 1])

\* The names of the Test Report's suites, in document order.
SuiteNames == [i \in 1..Len(report.suites) |-> report.suites[i].name]

\* The policies of the Combined Report's test cases, in document order.
TestCaseNames ==
    [i \in 1..Len(report.suites[1].cases) |-> report.suites[1].cases[i].name.policy]

\* The areas of the Combined Report's coverage cases, in document order.
CoverageCaseNames ==
    [i \in 1..Len(report.suites[2].cases) |-> report.suites[2].cases[i].name.area]

\* The areas of the Coverage-Only policy sections, in document order.
SectionNames ==
    LET headers == SelectSeq(report.suites[1].cases[1].system_out,
                             LAMBDA l : l.kind = "policy")
    IN  [i \in 1..Len(headers) |-> headers[i].area]

\* The names of the Cobertura packages, in document order.
PackageNames == [i \in 1..Len(report.packages) |-> report.packages[i].name]

\* The normalized names of the input's groups.
InputPolicies == { PolicyName(test_data[i].package) : i \in 1..Len(test_data) }

InputAreas ==
    { PolicyArea(f.path) : f \in { g \in SeqToSet(coverage_data.files) : ~IsTestFile(g.path) } }

InputPackages ==
    { PackageName(f.path) : f \in { g \in SeqToSet(coverage_data.files) : ~IsTestFile(g.path) } }

\* C14: in every builder the groups are rendered in lexicographic order of
\* their normalized name, whatever the order of the input: the Test Report's
\* suites, the Combined Report's test cases and coverage cases, the
\* Coverage-Only policy sections and the Cobertura packages are the groups of
\* the input, each once, strictly ascending by name.
C14_GroupsInNameOrder ==
    Built =>
        IF tool = "test"
        THEN StrictlyAscending(SuiteNames) /\ SeqToSet(SuiteNames) = InputPolicies
        ELSE IF tool = "combined"
        THEN /\ StrictlyAscending(TestCaseNames)
             /\ SeqToSet(TestCaseNames) = InputPolicies
             /\ StrictlyAscending(CoverageCaseNames)
             /\ SeqToSet(CoverageCaseNames) = InputAreas
        ELSE IF tool = "coverage"
        THEN StrictlyAscending(SectionNames) /\ SeqToSet(SectionNames) = InputAreas
        ELSE StrictlyAscending(PackageNames) /\ SeqToSet(PackageNames) = InputPackages

\* The Combined Report of a files mapping that lists main.rego before
\* policy/bar/a.rego: the case of bar comes before the case of other.
C14_Witness ==
    /\ Built
    /\ tool = "combined"
    /\ Len(coverage_data.files) = 2
    /\ coverage_data.files[1].path = << "main", ".rego" >>
    /\ coverage_data.files[2].path = << "policy", "/", "bar", "/", "a", ".rego" >>
    /\ CoverageCaseNames = << << "bar" >>, << "other" >> >>
    /\ TestCaseNames = << << "policy", ".", "foo" >> >>

(***************************************************************************)
(* Properties of the Cobertura packages and classes, checked under SpecCov.*)
(***************************************************************************)
\* The directory of a file path: its segments without the filename.
DirectoryOf(file_path) == DropLast(Split(file_path, "/"), 1)

\* The name under which a directory is rendered.
DirectoryName(directory) ==
    IF directory = << >> THEN << "default" >> ELSE Join(directory, ".")

\* The (package, class) positions of the report that hold the file.
ClassesOf(file_path) ==
    { pos \in (1..Len(report.packages)) \X (1..Len(coverage_data.files)) :
        /\ pos[2] <= Len(report.packages[pos[1]].classes)
        /\ report.packages[pos[1]].classes[pos[2]].filename = file_path }

\* The package entries of the report that stand for the directory.
PackagesOf(directory) ==
    { p \in 1..Len(report.packages) : report.packages[p].name = DirectoryName(directory) }

\* C15: in the Cobertura report a file has a class entry if and only if its
\* path does not end in _test.rego, and a directory has a package entry if and
\* only if a file not ending in _test.rego lies directly in it; every class
\* is a file of the input, listed under the package of its directory.
C15_ClassesAndPackages ==
    (Built /\ tool = "cobertura") =>
        /\ \A f \in SeqToSet(coverage_data.files) :
              /\ Cardinality(ClassesOf(f.path)) = IF IsTestFile(f.path) THEN 0 ELSE 1
              /\ \A pos \in ClassesOf(f.path) : pos[1] \in PackagesOf(DirectoryOf(f.path))
              /\ Cardinality(PackagesOf(DirectoryOf(f.path)))
                     = IF \E g \in SeqToSet(coverage_data.files) :
                             ~IsTestFile(g.path) /\ DirectoryOf(g.path) = DirectoryOf(f.path)
                       THEN 1 ELSE 0
        /\ \A p \in 1..Len(report.packages) :
              /\ Len(report.packages[p].classes) > 0
              /\ \A c \in 1..Len(report.packages[p].classes) :
                    \E f \in SeqToSet(coverage_data.files) :
                        f.path = report.packages[p].classes[c].filename

\* policy/foo holds a test file only and policy/bar a policy file: the
\* report has the single package policy.bar with the single class a.
C15_Witness ==
    /\ Built
    /\ tool = "cobertura"
    /\ Len(coverage_data.files) = 2
    /\ coverage_data.files[1].path = << "policy", "/", "foo", "/", "a", "_test", ".rego" >>
    /\ coverage_data.files[2].path = << "policy", "/", "bar", "/", "a", ".rego" >>
    /\ Len(report.packages) = 1
    /\ report.packages[1].name = << "policy", ".", "bar" >>
    /\ Len(report.packages[1].classes) = 1
    /\ report.packages[1].classes[1].name = << "a" >>

(***************************************************************************)
(* Properties of the threshold validation, checked under Spec.             *)
(***************************************************************************)
\* A threshold was supplied on the command line (the Cobertura tool has no
\* default) and lies outside [0, 100].
ThresholdOutsideRange ==
    /\ tool \in { "combined", "coverage", "cobertura" }
    /\ IF tool = "cobertura"
       THEN /\ coverage_threshold # None
            /\ (coverage_threshold.value < 0 \/ coverage_threshold.value > 100000)
       ELSE coverage_threshold < 0 \/ coverage_threshold > 100000

\* C16: a run of the combined, coverage-only or Cobertura tool with a
\* threshold outside [0, 100] takes one step only: it reports the threshold
\* on the error channel and exits with a non-zero status, having read no
\* input file, built and written no report, printed no summary and left the
\* threshold as it was given.
C16_OutOfRangeRejected ==
    [][ThresholdOutsideRange =>
           /\ pc = "start"
           /\ pc' = "exit"
           /\ exit_code' > 0
           /\ stderr' = << "Coverage threshold must be between 0 and 100" >>
           /\ UNCHANGED << coverage_threshold, test_data, coverage_data, grouping,
                           report, written, stdout >>
           /\ test_data = None /\ coverage_data = None /\ written = << >>]_vars

\* The Cobertura tool was given a threshold of 100.01 and exited with status
\* 2 without reading its readable input.
C16_Witness ==
    /\ tool = "cobertura"
    /\ pc = "exit"
    /\ coverage_threshold = [value |-> 100010]
    /\ coverage_json.status = "ok"
    /\ coverage_data = None
    /\ written = << >>
    /\ exit_code = 2

(***************************************************************************)
(* Properties of the Cobertura figures, checked under SpecCov.             *)
(***************************************************************************)
\* Every line count of the input is non-negative.
NonNegativeLineCounts ==
    \A f \in SeqToSet(coverage_data.files) :
        Get(f.data, "covered_lines", 0) >= 0 /\ Get(f.data, "not_covered_lines", 0) >= 0

\* A line-rate (in units of 0.0001) lies in [0, 1].
IsRate(line_rate) == 0 <= line_rate /\ line_rate <= 10000

\* C17: for input with non-negative line counts, the coverage percentage the
\* Cobertura builder computes is in [0, 100], as is the figure it prints, and
\* the line-rates of the root, of every package, of every class and of every
\* method are in [0, 1].
C17_RatesInRange ==
    (Built /\ tool = "cobertura" /\ NonNegativeLineCounts) =>
        /\ grouping.policy_metrics.coverage.den > 0
        /\ 0 <= grouping.policy_metrics.coverage.num
        /\ grouping.policy_metrics.coverage.num
               <= 100 * grouping.policy_metrics.coverage.den
        /\ 0 <= RoundMetric(grouping.policy_metrics.coverage)
        /\ RoundMetric(grouping.policy_metrics.coverage) <= 100000
        /\ IsRate(report.line_rate)
        /\ \A p \in 1..Len(report.packages) :
              /\ IsRate(report.packages[p].line_rate)
              /\ \A c \in 1..Len(report.packages[p].classes) :
                    /\ IsRate(report.packages[p].classes[c].line_rate)
                    /\ \A m \in 1..Len(report.packages[p].classes[c].methods) :
                          IsRate(report.packages[p].classes[c].methods[m].line_rate)

\* A file at 99.996% with 99 of 100 lines next to a file without line
\* counts: the class rate rounds to 1.0, the package and root rates are 0.99.
C17_Witness ==
    /\ Built
    /\ tool = "cobertura"
    /\ Len(coverage_data.files) = 2
    /\ coverage_data.files[1].path = << "policy", "/", "foo", "/", "a", ".rego" >>
    /\ coverage_data.files[1].data.coverage = 99996
    /\ coverage_data.files[2].path = << "policy", "/", "foo", "/", "c", ".rego" >>
    /\ coverage_data.files[2].data = [coverage |-> 90000]
    /\ report.line_rate = 9900
    /\ report.packages[1].line_rate = 9900
    /\ report.packages[1].classes[1].line_rate = 10000
    /\ report.packages[1].classes[2].line_rate = 9000

(***************************************************************************)
(* Properties of the line percentage, checked under SpecLines.             *)
(***************************************************************************)
\* The sum of a line-count field (0 where the record lacks it) over the
\* non-test files of a package, or of every package when none is named.
RECURSIVE LinesIn(_, _, _)
LinesIn(files, package_name, key) ==
    IF files = << >> THEN 0
    ELSE (IF /\ ~IsTestFile(Head(files).path)
             /\ (package_name = << >> \/ PackageName(Head(files).path) = package_name)
          THEN Get(Head(files).data, key, 0) ELSE 0)
         + LinesIn(Tail(files), package_name, key)

CoveredIn(package_name) == LinesIn(coverage_data.files, package_name, "covered_lines")

TotalIn(package_name) ==
    LinesIn(coverage_data.files, package_name, "covered_lines")
    + LinesIn(coverage_data.files, package_name, "not_covered_lines")

\* value is covered/total rounded to a whole number of units, `scale` units
\* making up 1.
IsRounded(value, covered, total, scale) ==
    /\ 2 * (value * total - scale * covered) <= total
    /\ 2 * (scale * covered - value * total) <= total

\* C18: the policy-only overall coverage of the Cobertura builder is
\* covered/total*100 over the non-test files and 0 when total is 0, printed
\* rounded to two decimals; the root line-rate and each package's line-rate
\* is covered/total of its own files rounded to four decimals and 0 when its
\* total is 0.
C18_LinePercentage ==
    (Built /\ tool = "cobertura") =>
        /\ grouping.policy_metrics.coverage.den > 0
        /\ IF TotalIn(<< >>) = 0
           THEN /\ grouping.policy_metrics.coverage.num = 0
                /\ RoundMetric(grouping.policy_metrics.coverage) = 0
                /\ report.line_rate = 0
           ELSE /\ grouping.policy_metrics.coverage.num * TotalIn(<< >>)
                       = 100 * CoveredIn(<< >>) * grouping.policy_metrics.coverage.den
                /\ IsRounded(RoundMetric(grouping.policy_metrics.coverage) \div 10,
                             CoveredIn(<< >>), TotalIn(<< >>), 10000)
                /\ IsRounded(report.line_rate, CoveredIn(<< >>), TotalIn(<< >>), 10000)
        /\ \A p \in 1..Len(report.packages) :
              IF TotalIn(report.packages[p].name) = 0
              THEN report.packages[p].line_rate = 0
              ELSE IsRounded(report.packages[p].line_rate,
                             CoveredIn(report.packages[p].name),
                             TotalIn(report.packages[p].name), 10000)

\* 50 of 100 lines in policy/foo and no lines in policy/bar: the overall
\* coverage is 50, policy.foo has the rate 0.5 and policy.bar the rate 0.
C18_Witness ==
    /\ Built
    /\ tool = "cobertura"
    /\ Len(coverage_data.files) = 2
    /\ coverage_data.files[1].data
           = [coverage |-> 50000, covered_lines |-> 50, not_covered_lines |-> 50]
    /\ coverage_data.files[2]
           = [path |-> << "policy", "/", "bar", "/", "a", ".rego" >>,
              data |-> [coverage |-> 0, covered_lines |-> 0, not_covered_lines |-> 0]]
    /\ RoundMetric(grouping.policy_metrics.coverage) = 50000
    /\ report.line_rate = 5000
    /\ report.packages[1].name = << "policy", ".", "bar" >>
    /\ report.packages[1].line_rate = 0
    /\ report.packages[2].line_rate = 5000

(***************************************************************************)
(* Properties of the policy area of a file path, checked under Spec.       *)
(***************************************************************************)
\* The positions of the slashes of a path.
Slashes(file_path) == { i \in 1..Len(file_path) : file_path[i] = "/" }

\* The characters of a path strictly between its first and its last slash,
\* every slash turned into a dot.
BetweenSlashes(file_path) ==
    LET first == CHOOSE i \in Slashes(file_path) : \A j \in Slashes(file_path) : i <= j
        last  == CHOOSE i \in Slashes(file_path) : \A j \in Slashes(file_path) : j <= i
    IN  [i \in 1..(last - first - 1) |->
            IF file_path[first + i] = "/" THEN "." ELSE file_path[first + i]]

\* The area the claim gives a path: its segments between the first segment
\* and the filename when it has at least three segments and starts with
\* policy/, and `other` in every other case.
ClaimedArea(file_path) ==
    IF /\ Cardinality(Slashes(file_path)) >= 2
       /\ file_path[1] = "policy"
       /\ file_path[2] = "/"
    THEN BetweenSlashes(file_path)
    ELSE << "other" >>

\* The groups of the running builder that list the path.
AreasOf(file_path) ==
    { a \in DOMAIN CoverageGroups : file_path \in SeqToSet(CoverageGroups[a].files) }

\* C19: the Combined and the Coverage-Only builder file every non-test path
\* under one policy area, the same in both: the dot-joined segments strictly
\* between the first segment and the filename when the path has at least
\* three segments and its first segment is policy, and `other` otherwise.
C19_AreaOfPath ==
    (Built /\ tool \in { "combined", "coverage" }) =>
        /\ \A f \in SeqToSet(coverage_data.files) :
              AreasOf(f.path) = IF IsTestFile(f.path) THEN {} ELSE { ClaimedArea(f.path) }
        /\ DOMAIN CoverageGroups
               = { ClaimedArea(f.path) :
                     f \in { g \in SeqToSet(coverage_data.files) : ~IsTestFile(g.path) } }

\* policy/foo/policy/a.rego is filed under foo.policy by the Combined builder.
C19_Witness ==
    /\ Built
    /\ tool = "combined"
    /\ Len(coverage_data.files) = 1
    /\ coverage_data.files[1].path
           = << "policy", "/", "foo", "/", "policy", "/", "a", ".rego" >>
    /\ DOMAIN grouping.coverage = { << "foo", ".", "policy" >> }
    /\ report.suites[2].cases[1].name.area = << "foo", ".", "policy" >>

(***************************************************************************)
(* Properties of the fatal conditions, checked under Spec.                 *)
(***************************************************************************)
\* The input files in the order the running tool opens them.
InputsRead ==
    IF tool = "test" THEN << test_json >>
    ELSE IF tool = "combined" THEN << test_json, coverage_json >>
    ELSE << coverage_json >>

\* A file that was read holds data on which the builder raises: a test
\* record without package, a coverage object without files.
UnusableData ==
    \/ /\ tool \in { "test", "combined" }
       /\ \E i \in 1..Len(test_json.data) : "package" \notin DOMAIN test_json.data[i]
    \/ /\ tool \in { "combined", "coverage", "cobertura" }
       /\ "files" \notin DOMAIN coverage_json.data

\* The fatal condition of the run, "none" if it has none: the first input
\* that cannot be loaded, or else data the builder cannot use.
FatalCondition ==
    IF \E i \in 1..Len(InputsRead) : InputsRead[i].status # "ok"
    THEN InputsRead[CHOOSE i \in 1..Len(InputsRead) :
                        /\ InputsRead[i].status # "ok"
                        /\ \A j \in 1..(i - 1) : InputsRead[j].status = "ok"].status
    ELSE IF UnusableData THEN "unusable"
    ELSE "none"

\* C20: a run with a valid threshold whose input is missing, is not JSON or
\* makes the builder raise prints no summary and writes no report; once it
\* has ended, the error channel holds one message, "File not found" for a
\* missing input and another message for malformed input, and the exit status
\* is non-zero.  A run without a fatal condition prints nothing on the error
\* channel.
C20_FatalReported ==
    ~ThresholdOutsideRange =>
        IF FatalCondition = "none"
        THEN stderr = << >>
        ELSE /\ stdout = << >>
             /\ written = << >>
             /\ pc = "exit" =>
                   /\ exit_code > 0
                   /\ Len(stderr) = 1
                   /\ (stderr[1] = "File not found") <=> (FatalCondition = "missing")
                   /\ (stderr[1] = "Invalid JSON format") <=> (FatalCondition = "invalid")
                   /\ (stderr[1] = "Error") <=> (FatalCondition = "unusable")
             /\ pc # "exit" => stderr = << >>

\* The combined tool read its test results and found that its coverage file
\* is not JSON.
C20_Witness ==
    /\ tool = "combined"
    /\ pc = "exit"
    /\ test_json.status = "ok"
    /\ coverage_json.status = "invalid"
    /\ stderr = << "Invalid JSON format" >>
    /\ stdout = << >>
    /\ exit_code = 1

(***************************************************************************)
(* Properties of the two builders of coverage groups taken together,       *)
(* checked under SpecCov.                                                  *)
(***************************************************************************)
\* The groups have the same areas and, area by area, the same fields.
SameGroups(left, right) ==
    /\ DOMAIN left = DOMAIN right
    /\ \A a \in DOMAIN left :
          /\ left[a].files = right[a].files
          /\ left[a].file_count = right[a].file_count
          /\ left[a].total_coverage = right[a].total_coverage
          /\ left[a].total_lines = right[a].total_lines
          /\ left[a].covered_lines = right[a].covered_lines
          /\ left[a].not_covered_lines = right[a].not_covered_lines

\* C21: the Combined builder and the Coverage-Only builder aggregate the same
\* coverage input into the same coverage policy groups: whichever of the two
\* has run, its groups are those the other builds from the same input, area by
\* area the same files, file count, summed percentage and line totals, also
\* for files that carry only one of the two line-count fields.
C21_BuildersAgreeOnGroups ==
    (Built /\ tool \in { "combined", "coverage" }) =>
        /\ SameGroups(CoverageGroups, GroupSummaryCoverage(coverage_data.files))
        /\ SameGroups(CoverageGroups, GroupCoverage(coverage_data.files))

(***************************************************************************)
(* Properties of the passed-test count of the Combined Report, checked     *)
(* under SpecTests.                                                        *)
(***************************************************************************)
\* The number of test records that have neither fail nor error set.
PassedRecords ==
    Cardinality({ i \in 1..Len(test_data) :
                    ~test_data[i].fail /\ ~IsSet(test_data[i].error) })

\* C22: the passed-test count of the Combined Report, in the passed_tests
\* property of the test suite and in the Passed line of the console summary,
\* is the number of test records with neither fail nor error set, and lies
\* between 0 and the number of tests.
C22_PassedCount ==
    tool = "combined" =>
        /\ Built =>
              /\ report.suites[1].properties.passed_tests = PassedRecords
              /\ report.suites[1].properties.passed_tests \in 0..Len(test_data)
        /\ Completed =>
              /\ stdout[1].passed = PassedRecords
              /\ stdout[1].passed \in 0..Len(test_data)

(***************************************************************************)
(* Properties of the failure annotation of a policy area against the       *)
(* status marks of its files, checked under SpecCov.                       *)
(***************************************************************************)
\* The detail text of the case shows a file with the failing status mark.
ShowsFailingFile(case) ==
    \E i \in 1..Len(case.system_out) :
        case.system_out[i].kind = "file" /\ case.system_out[i].status = "bad"

\* C23: in the Combined Report's Coverage Summary a policy-area case carries
\* a failure annotation if and only if at least one file of its detail text
\* is shown with the failing status mark.
C23_FailureIffFailingMark ==
    (Built /\ tool = "combined") =>
        \A i \in 1..Len(report.suites[2].cases) :
            (report.suites[2].cases[i].failure # None)
                <=> ShowsFailingFile(report.suites[2].cases[i])

(***************************************************************************)
(* Properties of the Cobertura root totals against the packages, checked   *)
(* under SpecCov.                                                          *)
(***************************************************************************)
\* The sum of a line total over the packages of the report.
PackageSum(field) ==
    SumField(grouping.package_map, Sorted(DOMAIN grouping.package_map), field)

\* The positions of package_map, as (package, index), that hold the file.
PackageEntries(file) ==
    { pos \in (DOMAIN grouping.package_map) \X (1..Len(coverage_data.files)) :
        /\ pos[2] <= Len(grouping.package_map[pos[1]].files)
        /\ grouping.package_map[pos[1]].files[pos[2]] = file }

\* C24: in the Cobertura report the rendered packages are the packages of
\* package_map, the sum of their covered lines is the root lines-covered, the
\* sum of their total lines is the root lines-valid, and a file is counted in
\* exactly one package unless it is a test file, which is counted in none.
C24_RootTotalsMatchPackages ==
    (Built /\ tool = "cobertura") =>
        /\ Len(report.packages) = Cardinality(DOMAIN grouping.package_map)
        /\ { report.packages[i].name : i \in 1..Len(report.packages) }
               = DOMAIN grouping.package_map
        /\ PackageSum("covered_lines") = report.lines_covered
        /\ PackageSum("total_lines") = report.lines_valid
        /\ \A f \in SeqToSet(coverage_data.files) :
              Cardinality(PackageEntries(f)) = IF IsTestFile(f.path) THEN 0 ELSE 1

\* Two packages, one of 8 covered lines out of 10 and one whose file has
\* covered_lines 5 only: the root holds 13 lines covered out of 15.
C24_Witness ==
    /\ Built
    /\ tool = "cobertura"
    /\ Len(coverage_data.files) = 2
    /\ coverage_data.files[1]
           = [path |-> << "policy", "/", "foo", "/", "a", ".rego" >>,
              data |-> [coverage |-> 80000, covered_lines |-> 8, not_covered_lines |-> 2,
                        covered |-> << Region(1, 2) >>, not_covered |-> << Region(3, 4) >>]]
    /\ coverage_data.files[2]
           = [path |-> << "policy", "/", "bar", "/", "a", ".rego" >>,
              data |-> [coverage |-> 100000, covered_lines |-> 5]]
    /\ grouping.package_map[<< "policy", ".", "foo" >>].covered_lines = 8
    /\ grouping.package_map[<< "policy", ".", "foo" >>].total_lines = 10
    /\ grouping.package_map[<< "policy", ".", "bar" >>].covered_lines = 5
    /\ grouping.package_map[<< "policy", ".", "bar" >>].total_lines = 5
    /\ report.lines_covered = 13
    /\ report.lines_valid = 15

(***************************************************************************)
(* Properties of the moment the output document is written, checked under  *)
(* Spec.                                                                   *)
(***************************************************************************)
\* The complete report tree of the run's inputs.
CompleteReport ==
    IF tool = "test" THEN create_test_report(test_json.data)
    ELSE IF tool = "combined"
    THEN CombinedReport(
             CombinedTotals(test_json.data, RoundPercentage(coverage_json.data.coverage),
                            coverage_threshold),
             create_test_summary_and_suites(test_json.data)
             \o create_coverage_summary_and_suites(coverage_json.data, coverage_threshold))
    ELSE IF tool = "coverage"
    THEN create_coverage_report(coverage_json.data, coverage_threshold)
    ELSE create_cobertura_report(coverage_json.data)

\* Every input of the run has been loaded, and the report tree has been built
\* from it.
LoadedAndBuilt ==
    /\ FatalCondition = "none"
    /\ tool \in { "test", "combined" } => test_data = test_json.data
    /\ tool \in { "combined", "coverage", "cobertura" } => coverage_data = coverage_json.data
    /\ report = CompleteReport

\* What holds of the output in every state of a run.
OutputInOrder ==
    /\ Len(written) <= 1
    /\ written # << >> => (LoadedAndBuilt /\ written = << report >> /\ stderr = << >>)
    /\ pc # "exit" => exit_code = None
    /\ (pc = "exit" /\ stderr = << >>) => (LoadedAndBuilt /\ written = << report >>)
    /\ (pc = "exit" /\ stderr # << >>) => (written = << >> /\ exit_code > 0)

\* What holds of every step that writes to the output: the report has been
\* built, nothing has been written and no status has been returned yet.
WritesAfterBuild ==
    written' # written =>
        /\ pc = "built"
        /\ LoadedAndBuilt
        /\ written = << >>
        /\ written' = << report >>
        /\ exit_code = None
        /\ UNCHANGED << report, exit_code, stdout, stderr >>

\* C25: in each tool the output document is written only after every input
\* has been loaded and the whole report tree has been built, and at most once
\* per run; a run that ends without a fatal error, also one whose verdict is
\* failure, has written the complete report before it returns its status,
\* and a run that ends with a fatal error has written nothing.
C25_WrittenOnceAfterBuild ==
    /\ []OutputInOrder
    /\ [][WritesAfterBuild]_vars

\* The Coverage-Only tool found the coverage of 80.0 below the threshold of
\* 95.0: it has written the complete report and returned the status 1.
C25_Witness ==
    /\ tool = "coverage"
    /\ pc = "exit"
    /\ stderr = << >>
    /\ stdout # << >>
    /\ coverage_data.coverage = 80000
    /\ coverage_threshold = 95000
    /\ report.failures = 1
    /\ written = << CompleteReport >>
    /\ exit_code = 1

====
